---- MODULE Spec2Model ----
(***************************************************************************)
(* A model of the K term library (tsk): the term model of kast/inner.ts    *)
(* (held in src/src/kast/outer_syntax.ts from line 299 on), its matching   *)
(* and substitution algebra, the constraint normalisation of kast/manip.ts *)
(* and the symbolic configurations of cterm/cterm.ts.                      *)
(*                                                                         *)
(* The library is a set of pure functions.  Every operation is an operator *)
(* computed the way the code computes it; a specification draws the        *)
(* arguments of one call from a bounded universe of terms (a Call action),  *)
(* records the value the call returns or the error it throws, and returns  *)
(* to the idle state (action Return).                                      *)
(*                                                                         *)
(* JavaScript values are modelled as records tagged by "node" (terms) or   *)
(* by "t" (the values of a serialised dictionary).  An object identity     *)
(* test (===) between two terms is decided by the variable `interned`: in  *)
(* a run with interned = TRUE the caller builds structurally equal terms   *)
(* from one shared object (as the unit tests do with their constants a, b, *)
(* c, x, y), in a run with interned = FALSE every term is a fresh object.  *)
(***************************************************************************)
EXTENDS Integers, Sequences, FiniteSets, TLC

VARIABLES pc, arg, ret, interned

vars == <<pc, arg, ret, interned>>

(***************************************************************************)
(* Bounds of the model.                                                    *)
(***************************************************************************)
\* the longest KSequence / argument list drawn as an input
MaxItems == 2
\* the longest constraint list handed to the CTerm constructor
MaxConstraints == 2
\* the largest number of conjuncts of a predicate handed to extractSubst
MaxConjuncts == 2
\* the largest number of bindings of a substitution drawn as an input
MaxBindings == 2

(***************************************************************************)
(* Generic helpers.                                                        *)
(***************************************************************************)
\* all sequences over S of length at most n
SeqsUpTo(S, n) == UNION {[1..k -> S] : k \in 0..n}

\* Array.prototype.slice(from) with a 0-based start
SliceFrom(s, from) == SubSeq(s, from + 1, Len(s))

\* Array.prototype.slice(0, -1)
SliceInit(s) == SubSeq(s, 1, Len(s) - 1)

RECURSIVE FlatMap(_)
\* concatenation of a sequence of sequences
FlatMap(ss) == IF Len(ss) = 0 THEN <<>> ELSE Head(ss) \o FlatMap(Tail(ss))

\* a value computed once and named, as a const of the source is
Bind(value, Body(_)) == Body(value)

\* Array.prototype.map
Map(items, Op(_)) == [i \in 1..Len(items) |-> Op(items[i])]

\* the JavaScript values null and undefined, and a thrown Error
null == [node |-> "null"]
undefined == [node |-> "undefined"]
Error(msg) == [node |-> "Error", message |-> msg]
IsError(v) == v.node = "Error"

(***************************************************************************)
(* The term model: KSort, KLabel and the six variants of KInner.           *)
(***************************************************************************)
KSort(name) == [node |-> "KSort", name |-> name]

KLabel(name, params) == [node |-> "KLabel", name |-> name, params |-> params]

KToken(token, sort) == [node |-> "KToken", token |-> token, sort |-> sort]

KVariable(name, sort) == [node |-> "KVariable", name |-> name, sort |-> sort]

KApply(label, args) == [node |-> "KApply", label |-> label, args |-> args]

KAs(pattern, alias) == [node |-> "KAs", pattern |-> pattern, alias |-> alias]

KRewrite(lhs, rhs) == [node |-> "KRewrite", lhs |-> lhs, rhs |-> rhs]

\* the constructor flattens the KSequence items it is given (one level; every
\* KSequence is built by this constructor, so its own items are never sequences)
KSequence(items) ==
    [node |-> "KSequence",
     items |-> FlatMap([i \in 1..Len(items) |->
                 IF items[i].node = "KSequence" THEN items[i].items
                 ELSE <<items[i]>>])]

\* the getter `terms` of each variant
Terms(t) ==
    CASE t.node = "KApply" -> t.args
      [] t.node = "KAs" -> <<t.pattern, t.alias>>
      [] t.node = "KRewrite" -> <<t.lhs, t.rhs>>
      [] t.node = "KSequence" -> t.items
      [] OTHER -> <<>>

\* letTerms of each variant
letTerms(t, terms) ==
    CASE t.node = "KApply" -> KApply(t.label, terms)
      [] t.node = "KAs" -> KAs(terms[1], terms[2])
      [] t.node = "KRewrite" -> KRewrite(terms[1], terms[2])
      [] t.node = "KSequence" -> KSequence(terms)
      [] OTHER -> t

\* KApply.isCell
isCell(t) ==
    /\ t.node = "KApply"
    /\ Len(t.label.name) > 1
    /\ SubSeq(t.label.name, 1, 1) = "<"
    /\ SubSeq(t.label.name, Len(t.label.name), Len(t.label.name)) = ">"

(***************************************************************************)
(* Serialisation.  A dictionary value is a string, a number, a boolean, an *)
(* array, a Map (what toDict builds) or a plain object (what mapToObject   *)
(* makes of a Map); Map and object hold their entries in insertion order.  *)
(***************************************************************************)
DStr(s) == [t |-> "str", v |-> s]
DNum(n) == [t |-> "num", v |-> n]
DBool(b) == [t |-> "bool", v |-> b]
DArr(a) == [t |-> "arr", v |-> a]
DMap(entries) == [t |-> "Map", v |-> entries]
DObj(entries) == [t |-> "obj", v |-> entries]

\* Map.prototype.has / get
DHas(d, key) == \E i \in 1..Len(d.v) : d.v[i][1] = key
DGet(d, key) == d.v[CHOOSE i \in 1..Len(d.v) : d.v[i][1] = key][2]

KSort_toDict(s) == DMap(<<<<"node", DStr("KSort")>>, <<"name", DStr(s.name)>>>>)

KLabel_toDict(l) ==
    DMap(<<<<"node", DStr("KLabel")>>, <<"name", DStr(l.name)>>,
           <<"params", DArr([i \in 1..Len(l.params) |-> KSort_toDict(l.params[i])])>>>>)

\* _toDict of each variant, given the dictionaries of its children
toDictOf(t, terms) ==
    CASE t.node = "KToken" ->
           DMap(<<<<"node", DStr("KToken")>>, <<"token", DStr(t.token)>>,
                  <<"sort", KSort_toDict(t.sort)>>>>)
      [] t.node = "KVariable" ->
           DMap(<<<<"node", DStr("KVariable")>>, <<"name", DStr(t.name)>>>>
                \o (IF t.sort # null THEN <<<<"sort", KSort_toDict(t.sort)>>>> ELSE <<>>))
      [] t.node = "KApply" ->
           DMap(<<<<"node", DStr("KApply")>>, <<"label", KLabel_toDict(t.label)>>,
                  <<"args", DArr(terms)>>, <<"arity", DNum(Len(t.args))>>,
                  <<"variable", DBool(FALSE)>>>>)
      [] t.node = "KAs" ->
           DMap(<<<<"node", DStr("KAs")>>, <<"pattern", terms[1]>>, <<"alias", terms[2]>>>>)
      [] t.node = "KRewrite" ->
           DMap(<<<<"node", DStr("KRewrite")>>, <<"lhs", terms[1]>>, <<"rhs", terms[2]>>>>)
      [] t.node = "KSequence" ->
           DMap(<<<<"node", DStr("KSequence")>>, <<"items", DArr(terms)>>,
                  <<"arity", DNum(Len(t.items))>>>>)

RECURSIVE toDict(_)
\* KInner.toDict
toDict(t) == toDictOf(t, [i \in 1..Len(Terms(t)) |-> toDict(Terms(t)[i])])

KSort_fromDict(d) == KSort(DGet(d, "name").v)

KLabel_fromDict(d) ==
    KLabel(DGet(d, "name").v,
           [i \in 1..Len(DGet(d, "params").v) |-> KSort_fromDict(DGet(d, "params").v[i])])

KToken_fromDict(dct, terms) == KToken(DGet(dct, "token").v, KSort_fromDict(DGet(dct, "sort")))

\* KVariable._fromDict without the sort
KVariable_fromDict_NoSort(dct, terms) == KVariable(DGet(dct, "name").v, null)

KVariable_fromDict(dct, terms) ==
    KVariable(DGet(dct, "name").v,
              IF DHas(dct, "sort") THEN KSort_fromDict(DGet(dct, "sort")) ELSE null)

KApply_fromDict(dct, terms) == KApply(KLabel_fromDict(DGet(dct, "label")), terms)

KSequence_fromDict(dct, terms) == KSequence(terms)

KRewrite_fromDict(dct, terms) == KRewrite(terms[1], terms[2])

KAs_fromDict(dct, terms) == KAs(terms[1], terms[2])

RECURSIVE fromDict(_)
\* KInner.fromDict
fromDict(dct) ==
    LET nodeType == DGet(dct, "node").v
        sub(key) == IF DHas(dct, key)
                    THEN [i \in 1..Len(DGet(dct, key).v) |-> fromDict(DGet(dct, key).v[i])]
                    ELSE <<>>
    IN CASE nodeType = "KToken" -> KToken_fromDict(dct, <<>>)
         [] nodeType = "KVariable" -> KVariable_fromDict(dct, <<>>)
         [] nodeType = "KApply" -> KApply_fromDict(dct, sub("args"))
         [] nodeType = "KSequence" -> KSequence_fromDict(dct, sub("items"))
         [] nodeType = "KRewrite" ->
              KRewrite_fromDict(dct, <<fromDict(DGet(dct, "lhs")), fromDict(DGet(dct, "rhs"))>>)
         [] nodeType = "KAs" ->
              KAs_fromDict(dct, <<fromDict(DGet(dct, "pattern")), fromDict(DGet(dct, "alias"))>>)
         [] OTHER -> Error("Unknown node type")

RECURSIVE mapToObject(_)
\* utils.mapToObject: Maps become plain objects, arrays are converted element-wise
mapToObject(x) ==
    CASE x.t = "Map" -> DObj([i \in 1..Len(x.v) |-> <<x.v[i][1], mapToObject(x.v[i][2])>>])
      [] x.t = "arr" -> DArr([i \in 1..Len(x.v) |-> mapToObject(x.v[i])])
      [] OTHER -> x

RECURSIVE QuoteRange(_, _, _)
\* the characters of s at positions lo..hi, with " and \ escaped; the range is
\* halved so that the nesting stays logarithmic in the length
QuoteRange(s, lo, hi) ==
    IF lo > hi THEN ""
    ELSE IF lo = hi
    THEN LET c == SubSeq(s, lo, lo)
         IN IF c = "\"" \/ c = "\\" THEN "\\" \o c ELSE c
    ELSE LET mid == (lo + hi) \div 2
         IN QuoteRange(s, lo, mid) \o QuoteRange(s, mid + 1, hi)

\* JSON.stringify of a string
JSON_quote(s) == "\"" \o QuoteRange(s, 1, Len(s)) \o "\""

RECURSIVE Join(_)
\* the strings of a sequence joined by commas
Join(ss) ==
    IF Len(ss) = 0 THEN ""
    ELSE IF Len(ss) = 1 THEN ss[1]
    ELSE ss[1] \o "," \o Join(Tail(ss))

RECURSIVE JSON_stringify(_)
\* JSON.stringify: a Map has no enumerable own property and serialises as {}
JSON_stringify(x) ==
    CASE x.t = "str" -> JSON_quote(x.v)
      [] x.t = "num" -> ToString(x.v)
      [] x.t = "bool" -> IF x.v THEN "true" ELSE "false"
      [] x.t = "arr" -> "[" \o Join([i \in 1..Len(x.v) |-> JSON_stringify(x.v[i])]) \o "]"
      [] x.t = "obj" ->
           "{" \o Join([i \in 1..Len(x.v) |->
                          JSON_quote(x.v[i][1]) \o ":" \o JSON_stringify(x.v[i][2])]) \o "}"
      [] x.t = "Map" -> "{}"

\* KAst.toJson
toJson(t) == JSON_stringify(mapToObject(toDict(t)))

\* KAst.toString
toString(t) == JSON_quote(toJson(t))

\* KAst.equals: structural equality through the JSON text.  The code compares
\* JSON.stringify(this.toJson()) with JSON.stringify(other.toJson()).  Both
\* layers of JSON.stringify are injective on what they are given (a string is
\* quoted; an object of strings, arrays and objects is written out key by key in
\* insertion order), so the two texts are equal exactly when the two objects
\* that mapToObject makes of the dictionaries are, entry by entry in order
equals(this, other) == mapToObject(toDict(this)) = mapToObject(toDict(other))

\* the identity test === between two terms (see the module comment)
Identical(x, y) == interned /\ x = y

(***************************************************************************)
(* Substitutions: a Map from variable names to terms, in insertion order.  *)
(***************************************************************************)
Subst(entries) == [node |-> "Subst", entries |-> entries]

\* Subst.has / Subst.get / Subst.keys
has(subst, key) == \E i \in 1..Len(subst.entries) : subst.entries[i][1] = key
get(subst, key) ==
    subst.entries[CHOOSE i \in 1..Len(subst.entries) : subst.entries[i][1] = key][2]
keys(subst) == {subst.entries[i][1] : i \in 1..Len(subst.entries)}

\* Subst.termsEqual: two variables are compared by name and sort, every other
\* pair by JSON.stringify of the two Maps that toDict returns
termsEqual(t1, t2) ==
    IF t1.node = "KVariable" /\ t2.node = "KVariable"
    THEN /\ t1.name = t2.name
         /\ \/ (t1.sort = null /\ t2.sort = null)
            \/ (t1.sort # null /\ t2.sort # null /\ t1.sort.name = t2.sort.name)
    ELSE JSON_stringify(toDict(t1)) = JSON_stringify(toDict(t2))

RECURSIVE unionLoop(_, _, _)
\* the second loop of Subst.union, from entry i of other on
unionLoop(result, other, i) ==
    IF i > Len(other.entries) THEN Subst(result)
    ELSE LET k == other.entries[i][1]
             v == other.entries[i][2]
         IN IF has(Subst(result), k)
            THEN IF ~termsEqual(get(Subst(result), k), v) THEN null
                 ELSE unionLoop(result, other, i + 1)
            ELSE unionLoop(Append(result, <<k, v>>), other, i + 1)

\* Subst.union without its second loop: the entries of other are dropped
union_ThisOnly(this, other) == Subst(this.entries)

\* Subst.union
union(this, other) == unionLoop(this.entries, other, 1)

RECURSIVE combineLoop(_, _, _)
\* the loop of KInner.combineMatches, from element i of substs on
combineLoop(result, substs, i) ==
    IF i > Len(substs) THEN result
    ELSE IF substs[i] = null \/ result = null THEN null
    ELSE LET r == union(result, substs[i])
         IN IF r = null THEN null ELSE combineLoop(r, substs, i + 1)

\* KInner.combineMatches
combineMatches(substs) == combineLoop(Subst(<<>>), substs, 1)

\* the first thrown error of a sequence of results evaluated left to right, or
\* the value `otherwise` when none threw
FirstError(results, otherwise) ==
    IF \E i \in 1..Len(results) : IsError(results[i])
    THEN results[CHOOSE i \in 1..Len(results) :
                   /\ IsError(results[i])
                   /\ \A j \in 1..(i - 1) : ~IsError(results[j])]
    ELSE otherwise

\* KToken.match
KToken_match(this, term) ==
    IF term.node = "KToken" /\ term.token = this.token THEN Subst(<<>>) ELSE null

\* KVariable.match
KVariable_match(this, term) == Subst(<<<<this.name, term>>>>)

\* a KAs.match that fails with null
KAs_match_Null(this, term) == null

\* KAs.match
KAs_match(this, term) == Error("KAs does not support pattern matching")

RECURSIVE match(_, _)
RECURSIVE tailLoop(_, _, _, _)
\* the second loop of KSequence.match: items 1..commonLength against the term
tailLoop(this, term, subst, i) ==
    IF i > Len(this.items) - 1 THEN subst
    ELSE LET m == match(this.items[i], term.items[i])
         IN IF IsError(m) THEN m
            ELSE LET s == combineMatches(<<subst, m>>)
                 IN IF s = null THEN null ELSE tailLoop(this, term, s, i + 1)

\* KApply.match
KApply_match(this, term) ==
    IF /\ term.node = "KApply"
       /\ term.label.name = this.label.name
       /\ Len(term.args) = Len(this.args)
    THEN LET matches == [i \in 1..Len(this.args) |-> match(this.args[i], term.args[i])]
         IN FirstError(matches, combineMatches(matches))
    ELSE null

\* KRewrite.match with the two sides of the term crossed over
KRewrite_match_Crossed(this, term) ==
    IF term.node = "KRewrite"
    THEN LET lhsSubst == match(this.lhs, term.rhs)
             rhsSubst == match(this.rhs, term.lhs)
         IN IF IsError(lhsSubst) THEN lhsSubst
            ELSE IF IsError(rhsSubst) THEN rhsSubst
            ELSE IF lhsSubst = null \/ rhsSubst = null THEN null
            ELSE union(lhsSubst, rhsSubst)
    ELSE null

\* KRewrite.match
KRewrite_match(this, term) ==
    IF term.node = "KRewrite"
    THEN LET lhsSubst == match(this.lhs, term.lhs)
             rhsSubst == match(this.rhs, term.rhs)
         IN IF IsError(lhsSubst) THEN lhsSubst
            ELSE IF IsError(rhsSubst) THEN rhsSubst
            ELSE IF lhsSubst = null \/ rhsSubst = null THEN null
            ELSE union(lhsSubst, rhsSubst)
    ELSE null

\* KSequence.match
KSequence_match(this, term) ==
    IF term.node = "KSequence"
    THEN IF Len(term.items) = Len(this.items)
         THEN LET matches == [i \in 1..Len(this.items) |->
                                match(this.items[i], term.items[i])]
              IN FirstError(matches, combineMatches(matches))
         ELSE IF /\ Len(this.items) > 0
                 /\ Len(this.items) < Len(term.items)
                 /\ this.items[Len(this.items)].node = "KVariable"
         THEN LET lastVar == this.items[Len(this.items)]
                  commonLength == Len(this.items) - 1
              IN IF \E i \in 1..commonLength :
                       /\ this.items[i].node = "KVariable"
                       /\ this.items[i].name = lastVar.name
                 THEN null
                 ELSE tailLoop(this, term,
                               Subst(<<<<lastVar.name,
                                         KSequence(SliceFrom(term.items, commonLength))>>>>),
                               1)
         ELSE null
    ELSE null

\* KInner.match, dispatched on the variant of the pattern
match(this, term) ==
    CASE this.node = "KToken" -> KToken_match(this, term)
      [] this.node = "KVariable" -> KVariable_match(this, term)
      [] this.node = "KApply" -> KApply_match(this, term)
      [] this.node = "KAs" -> KAs_match(this, term)
      [] this.node = "KRewrite" -> KRewrite_match(this, term)
      [] this.node = "KSequence" -> KSequence_match(this, term)

(***************************************************************************)
(* Traversal.  A callback is an operator argument.                         *)
(***************************************************************************)
\* a push that puts the transformed term in front of its siblings
pushTransformed_Front(stack, transformedTerm) ==
    [stack EXCEPT ![Len(stack)] = <<@[1], <<transformedTerm>> \o @[2]>>]

\* stack[stack.length - 1].push(transformedTerm): the transformed term joins the
\* transformed children of the level below it
pushTransformed(stack, transformedTerm) ==
    [stack EXCEPT ![Len(stack)] = <<@[1], Append(@[2], transformedTerm)>>]

RECURSIVE bottomUpLoop(_, _)
\* the loop of bottomUp for the callback func; the stack holds one
\* <<term, terms>> pair per level
bottomUpLoop(func(_), stack) ==
    LET terms == stack[Len(stack)][2]
        term == stack[Len(stack)][1]
        idx == Len(terms)
    IN IF idx = Len(Terms(term))
       THEN LET transformedTerm == func(letTerms(term, terms))
                rest == SubSeq(stack, 1, Len(stack) - 1)
            IN IF IsError(transformedTerm) \/ Len(rest) = 0 THEN transformedTerm
               ELSE bottomUpLoop(func, pushTransformed(rest, transformedTerm))
       ELSE bottomUpLoop(func, Append(stack, <<Terms(term)[idx + 1], <<>>>>))

\* bottomUp
bottomUp(func(_), kinner) == bottomUpLoop(func, <<<<kinner, <<>>>>>>)

\* the callback `replace` of Subst.apply
Subst_replace(subst, t) ==
    IF t.node = "KVariable" /\ has(subst, t.name) THEN get(subst, t.name) ELSE t

\* Subst.apply
apply(subst, term) == bottomUp(LAMBDA t : Subst_replace(subst, t), term)

\* KRewrite.replaceTop
replaceTop(rewrite, term) == IF equals(rewrite.lhs, term) THEN rewrite.rhs ELSE term

\* KRewrite.replace
replace(rewrite, term) == bottomUp(LAMBDA t : replaceTop(rewrite, t), term)

\* KRewrite.applyTop
applyTop(rewrite, term) ==
    Bind(match(rewrite.lhs, term), LAMBDA subst :
         IF IsError(subst) THEN subst
         ELSE IF subst # null THEN apply(subst, rewrite.rhs)
         ELSE term)

\* KRewrite.apply
KRewrite_apply(rewrite, term) == bottomUp(LAMBDA t : applyTop(rewrite, t), term)

(***************************************************************************)
(* The universe of terms the calls are drawn from.                         *)
(***************************************************************************)
INT == KSort("Int")
STRING_SORT == KSort("String")

a == KApply(KLabel("a", <<>>), <<>>)
b == KApply(KLabel("b", <<>>), <<>>)
x == KVariable("X", null)
y == KVariable("Y", null)
xInt == KVariable("X", INT)
tok1 == KToken("1", INT)
tok1S == KToken("1", STRING_SORT)

f(args) == KApply(KLabel("f", <<>>), args)

NonEmptySeqs(S, n) == SeqsUpTo(S, n) \ {<<>>}

PatLeaves == {x, y, xInt, a, tok1}
PatSeqItems == {x, y, a, f(<<x>>)}
TermLeaves == {a, b, x, tok1, tok1S}
TermSeqItems == {a, b, x}

Patterns ==
    PatLeaves
    \cup {f(s) : s \in NonEmptySeqs(PatLeaves, MaxItems)}
    \cup {KApply(KLabel("f", <<INT>>), <<l>>) : l \in PatLeaves}
    \cup {KRewrite(l, r) : l \in PatLeaves, r \in PatLeaves}
    \cup {KSequence(s) : s \in SeqsUpTo(PatSeqItems, MaxItems)}
    \cup {KAs(l, x) : l \in PatLeaves}
    \cup {f(<<KAs(a, x), l>>) : l \in PatLeaves}

MatchTerms ==
    TermLeaves
    \cup {f(s) : s \in NonEmptySeqs(TermLeaves, MaxItems)}
    \cup {KApply(KLabel("f", <<STRING_SORT>>), <<l>>) : l \in TermLeaves}
    \cup {KRewrite(l, r) : l \in TermLeaves, r \in TermLeaves}
    \cup {KSequence(s) : s \in SeqsUpTo(TermSeqItems, MaxItems + 1)}
    \cup {KAs(a, x)}

(***************************************************************************)
(* Matching: pattern.match(term).                                          *)
(***************************************************************************)
InitMatch == pc = "idle" /\ arg = <<>> /\ ret = null /\ interned = FALSE

\* a caller matches a pattern against a term
CallMatch ==
    /\ pc = "idle"
    /\ \E p \in Patterns, t \in MatchTerms :
         /\ arg' = [pattern |-> p, term |-> t]
         /\ ret' = match(p, t)
    /\ pc' = "match"
    /\ UNCHANGED interned

\* a caller matches a term against itself
CallMatchSelf ==
    /\ pc = "idle"
    /\ \E p \in Patterns \cup MatchTerms :
         /\ arg' = [pattern |-> p, term |-> p]
         /\ ret' = match(p, p)
    /\ pc' = "match"
    /\ UNCHANGED interned

\* the call is over
Return ==
    /\ pc # "idle"
    /\ pc' = "idle"
    /\ arg' = <<>>
    /\ ret' = null
    /\ UNCHANGED interned

NextMatch == CallMatch \/ CallMatchSelf \/ Return

SpecMatch == InitMatch /\ [][NextMatch]_vars

\* structural equality of two terms: the same variant, labels, sort parameters,
\* sorts and children
StructurallyEqual(t1, t2) == t1 = t2

RECURSIVE Subterms(_)
\* the set of subterms of a term, the term itself included: the terms that
\* collect visits
Subterms(t) == {t} \cup UNION {Subterms(Terms(t)[i]) : i \in 1..Len(Terms(t))}

\* varOccurrences: the variable occurrences of a term, as a set of KVariable nodes
VarNodes(t) == {s \in Subterms(t) : s.node = "KVariable"}

C7_SelfMatchAnyTerm ==
    (pc = "match" /\ arg.pattern = arg.term)
        => /\ ret.node = "Subst"
           /\ StructurallyEqual(apply(ret, arg.pattern), arg.pattern)

\* no alias term occurs in t
AliasFree(t) == \A s \in Subterms(t) : s.node # "KAs"

\* no variable name occurs in t with two different sorts
SingleSorted(t) == \A v, w \in VarNodes(t) : v.name = w.name => v.sort = w.sort

\* C7 amended: a term without alias terms, in which no variable name carries two
\* different sorts, matched against itself gives a substitution that reproduces it
C7_SelfMatch ==
    (pc = "match" /\ arg.pattern = arg.term /\ AliasFree(arg.pattern)
       /\ SingleSorted(arg.pattern))
        => /\ ret.node = "Subst"
           /\ StructurallyEqual(apply(ret, arg.pattern), arg.pattern)

\* a rewrite holding a variable is matched against itself and binds the variable
C7_Witness ==
    /\ pc = "match" /\ arg.pattern = arg.term
    /\ arg.pattern.node = "KRewrite"
    /\ arg.pattern.lhs.node = "KVariable"
    /\ ret.node = "Subst" /\ Len(ret.entries) > 0

\* ---------------------------------------------------------------------------
\* Substitutions: union and unapply

RECURSIVE unapplyLoop(_, _, _)
\* the loop of Subst.unapply over the entries, from entry i on
unapplyLoop(subst, i, newTerm) ==
    IF i > Len(subst.entries) THEN newTerm
    ELSE LET lhs == subst.entries[i][2]
             rhs == KVariable(subst.entries[i][1], null)
             rewrite == KRewrite(lhs, rhs)
         IN unapplyLoop(subst, i + 1, replace(rewrite, newTerm))

\* Subst.unapply undoing the first entry only
unapply_FirstEntry(this, term) ==
    IF Len(this.entries) = 0 THEN term
    ELSE unapplyLoop(Subst(<<this.entries[1]>>), 1, term)

\* Subst.unapply
unapply(this, term) == unapplyLoop(this, 1, term)

SubstKeys == {"X", "Y"}

SubstValues ==
    {a, b, x, xInt, tok1, tok1S, f(<<a>>), KSequence(<<a, b>>), KRewrite(a, b)}

\* the substitutions of at most MaxBindings entries, in every insertion order
Substs ==
    {Subst(e) : e \in {e \in SeqsUpTo(SubstKeys \X SubstValues, MaxBindings) :
                          \A i, j \in 1..Len(e) : i # j => e[i][1] # e[j][1]}}

UnapplyTerms ==
    {x, y, xInt, a, b, tok1, f(<<x>>), f(<<y>>), f(<<x, y>>), f(<<x, x>>), f(<<x, a>>),
     f(<<y, tok1>>), f(<<f(<<x>>), y>>), f(<<xInt, y>>), KSequence(<<x, y>>),
     KSequence(<<x, b>>), KSequence(<<y>>), KRewrite(x, y), KRewrite(f(<<x>>), b),
     KAs(x, y)}

CallUnion ==
    /\ pc = "idle"
    /\ \E A \in Substs, B \in Substs :
          /\ arg' = [this |-> A, other |-> B]
          /\ ret' = union(A, B)
    /\ pc' = "union"
    /\ UNCHANGED interned

CallUnapply ==
    /\ pc = "idle"
    /\ \E S \in Substs, T \in UnapplyTerms :
          /\ arg' = [subst |-> S, term |-> T, applied |-> apply(S, T)]
          /\ ret' = unapply(S, apply(S, T))
    /\ pc' = "unapply"
    /\ UNCHANGED interned

\* a compose that leaves the values of other as they are
compose_NoApply(this, other) ==
    Subst(other.entries \o SelectSeq(this.entries, LAMBDA e : ~has(other, e[1])))

\* a compose that gives a key bound on both sides the value of this
compose_PreferThis(this, other) ==
    Subst(Map(other.entries,
              LAMBDA e : IF has(this, e[1]) THEN <<e[1], get(this, e[1])>>
                         ELSE <<e[1], apply(this, e[2])>>)
          \o SelectSeq(this.entries, LAMBDA e : ~has(other, e[1])))

\* Subst.compose: the entries of other with this applied to their values, then
\* the entries of this whose key other does not have
compose(this, other) ==
    Subst(Map(other.entries, LAMBDA e : <<e[1], apply(this, e[2])>>)
          \o SelectSeq(this.entries, LAMBDA e : ~has(other, e[1])))

\* the values of the substitutions that are composed: terms over the variables
\* that are keys
ComposeValues == {a, x, y, f(<<x>>), f(<<y>>), KSequence(<<x, y>>)}

ComposeSubsts ==
    {Subst(e) : e \in {e \in SeqsUpTo(SubstKeys \X ComposeValues, MaxBindings) :
                          \A i, j \in 1..Len(e) : i # j => e[i][1] # e[j][1]}}

\* the terms a composition is applied to
ComposeTerms ==
    {x, y, xInt, a, f(<<x, y>>), KRewrite(x, f(<<y>>)), KSequence(<<y, x>>), KAs(x, y)}

CallCompose ==
    /\ pc = "idle"
    /\ \E A \in ComposeSubsts, B \in ComposeSubsts :
          /\ arg' = [this |-> A, other |-> B]
          /\ ret' = compose(A, B)
    /\ pc' = "compose"
    /\ UNCHANGED interned

NextSubst == CallUnion \/ CallUnapply \/ CallCompose \/ Return

SpecSubst == InitMatch /\ [][NextSubst]_vars

\* the keys bound in both substitutions
SharedKeys(A, B) == keys(A) \cap keys(B)

\* C3: when some key is bound in both substitutions to structurally different
\* values, union returns null; it returns a substitution only when every shared
\* key has structurally equal values
C3_UnionConflict ==
    pc = "union" =>
        /\ (\E k \in SharedKeys(arg.this, arg.other) :
               ~StructurallyEqual(get(arg.this, k), get(arg.other, k)))
           => ret = null
        /\ ret # null
           => \A k \in SharedKeys(arg.this, arg.other) :
                 StructurallyEqual(get(arg.this, k), get(arg.other, k))

\* no bound value of S mentions a key of S
ValuesFreeOfKeys(S) ==
    \A i \in 1..Len(S.entries) :
        \A v \in VarNodes(S.entries[i][2]) : v.name \notin keys(S)

\* every variable of T is a key of S
VarsAreKeys(T, S) == \A v \in VarNodes(T) : v.name \in keys(S)

\* C10 as stated: when no bound value of S mentions a key of S and every variable
\* of T is a key of S, S.unapply(S.apply(T)) is structurally equal to T
C10_UnapplyInvertsApply ==
    (pc = "unapply" /\ ValuesFreeOfKeys(arg.subst) /\ VarsAreKeys(arg.term, arg.subst))
        => StructurallyEqual(ret, arg.term)

\* no bound value of S is a sequence, and none is equal to or a subterm of the
\* value of another entry
ValuesSeparate(S) ==
    \A i \in 1..Len(S.entries) :
        /\ S.entries[i][2].node # "KSequence"
        /\ \A j \in 1..Len(S.entries) :
              i # j => S.entries[i][2] \notin Subterms(S.entries[j][2])

\* the variables of T carry no sort and no subterm of T is a bound value of S
TermClearOf(T, S) ==
    /\ \A v \in VarNodes(T) : v.sort = null
    /\ \A i \in 1..Len(S.entries) : S.entries[i][2] \notin Subterms(T)

\* C10 amended: when, in addition, the bound values are not sequences and none
\* is equal to or a subterm of another, and T has only unsorted variables and no
\* subterm equal to a bound value, S.unapply(S.apply(T)) is structurally equal to T
C10_UnapplyInvertsApplySeparate ==
    (pc = "unapply" /\ ValuesFreeOfKeys(arg.subst) /\ VarsAreKeys(arg.term, arg.subst)
       /\ ValuesSeparate(arg.subst) /\ TermClearOf(arg.term, arg.subst))
        => StructurallyEqual(ret, arg.term)

\* two bound values were substituted into a term and rewritten back
C10_Witness ==
    /\ pc = "unapply" /\ Len(arg.subst.entries) = 2
    /\ ValuesFreeOfKeys(arg.subst) /\ ValuesSeparate(arg.subst)
    /\ TermClearOf(arg.term, arg.subst)
    /\ {v.name : v \in VarNodes(arg.term)} = keys(arg.subst)
    /\ arg.applied # arg.term /\ VarNodes(arg.applied) = {}
    /\ ret = arg.term

\* ---------------------------------------------------------------------------
\* Anti-unification

\* what reading a property of undefined throws
TypeError(prop) ==
    Error("TypeError: Cannot read properties of undefined (reading '" \o prop \o "')")

\* terms[idx] of a JavaScript array, idx counted from 0: an index outside
\* 0..length-1 (a negative one included) reads undefined
At(terms, idx) == IF idx >= 0 /\ idx < Len(terms) THEN terms[idx + 1] ELSE undefined

RECURSIVE topDownLoop(_, _)
\* the loop of topDown; the stack holds one <<currentTerm, terms>> pair per level
topDownLoop(func(_), stack) ==
    LET terms == stack[Len(stack)][2]
        currentTerm == stack[Len(stack)][1]
    IN IF IsError(currentTerm) THEN currentTerm
       ELSE IF currentTerm = undefined THEN TypeError("terms")
       ELSE LET idx == Len(terms) - Len(Terms(currentTerm))
            IN IF idx = 0
               THEN LET termWithNewChildren == letTerms(currentTerm, terms)
                        rest == SubSeq(stack, 1, Len(stack) - 1)
                    IN IF Len(rest) = 0 THEN termWithNewChildren
                       ELSE topDownLoop(func, [rest EXCEPT ![Len(rest)] =
                                              <<@[1], Append(@[2], termWithNewChildren)>>])
               ELSE topDownLoop(func, Append(stack,
                                          <<func(At(Terms(currentTerm), idx)), <<>>>>))

\* topDown
topDown(func(_), term) == topDownLoop(func, <<<<func(term), <<>>>>>>)

RECURSIVE pushDownRewritesInner(_)
\* the callback of pushDownRewrites
pushDownRewritesInner(k) ==
    IF k.node # "KRewrite" THEN k
    ELSE LET lhs == k.lhs
             rhs == k.rhs
             bothSeq == /\ lhs.node = "KSequence" /\ rhs.node = "KSequence"
                        /\ Len(lhs.items) > 0 /\ Len(rhs.items) > 0
         IN IF Identical(lhs, rhs) THEN lhs
            ELSE IF lhs.node = "KVariable" /\ rhs.node = "KVariable" /\ lhs.name = rhs.name
            THEN lhs
            ELSE IF /\ lhs.node = "KApply" /\ rhs.node = "KApply"
                    /\ lhs.label.name = rhs.label.name /\ Len(lhs.args) = Len(rhs.args)
            THEN KApply(lhs.label, [i \in 1..Len(lhs.args) |-> KRewrite(lhs.args[i], rhs.args[i])])
            ELSE IF bothSeq /\ Len(lhs.items) = 1 /\ Len(rhs.items) = 1
            THEN pushDownRewritesInner(KRewrite(lhs.items[1], rhs.items[1]))
            ELSE IF bothSeq /\ Identical(lhs.items[1], rhs.items[1])
            THEN LET lowerRewrite ==
                        pushDownRewritesInner(KRewrite(KSequence(SliceFrom(lhs.items, 1)),
                                                       KSequence(SliceFrom(rhs.items, 1))))
                 IN KSequence(<<lhs.items[1], lowerRewrite>>)
            ELSE IF bothSeq /\ Identical(lhs.items[Len(lhs.items)], rhs.items[Len(rhs.items)])
            THEN LET lowerRewrite ==
                        pushDownRewritesInner(KRewrite(KSequence(SliceInit(lhs.items)),
                                                       KSequence(SliceInit(rhs.items))))
                 IN KSequence(<<lowerRewrite, lhs.items[Len(lhs.items)]>>)
            ELSE IF /\ lhs.node = "KSequence" /\ Len(lhs.items) > 0
                    /\ lhs.items[Len(lhs.items)].node = "KVariable"
                    /\ rhs.node = "KVariable"
                    /\ Identical(lhs.items[Len(lhs.items)], rhs)
            THEN KSequence(<<KRewrite(KSequence(SliceInit(lhs.items)), KSequence(<<>>)), rhs>>)
            ELSE k

\* pushDownRewrites
pushDownRewrites(kast) == topDown(pushDownRewritesInner, kast)

\* hashStr(text).slice(0, 8): the first eight hexadecimal digits of the SHA-256
\* digest.  The digest is not computed here; it is stood for by a symbolic digest
\* of the text, so that distinct texts get distinct digests (no collision)
hashStr8(text) == "sha256(" \o text \o ")"

\* abstractTermSafely, called without existingVarNames
abstractTermSafely(kast, baseName, sort) ==
    KVariable(baseName \o "_" \o hashStr8(toString(kast)), sort)

\* the callback rewritesToAbstractions of antiUnify, called without a definition
rewritesToAbstractions(kast) ==
    IF kast.node = "KRewrite" THEN abstractTermSafely(kast, "V", null) ELSE kast

\* antiUnify of cterm.ts, called without a definition; the triple it returns is
\* a record tagged "Triple"
antiUnify(state1, state2) ==
    LET minimizedRewrite == pushDownRewrites(KRewrite(state1, state2))
        abstractedState == bottomUp(rewritesToAbstractions, minimizedRewrite)
        subst1 == match(abstractedState, state1)
        subst2 == match(abstractedState, state2)
    IN IF IsError(minimizedRewrite) THEN minimizedRewrite
       ELSE IF IsError(subst1) THEN subst1
       ELSE IF IsError(subst2) THEN subst2
       ELSE IF subst1 = null \/ subst2 = null
       THEN Error("Anti-unification failed to produce a more general state!")
       ELSE [node |-> "Triple", state |-> abstractedState, subst1 |-> subst1,
             subst2 |-> subst2]

kCell(args) == KApply(KLabel("<k>", <<>>), args)
topCell(args) == KApply(KLabel("<top>", <<>>), args)
memCell(args) == KApply(KLabel("<mem>", <<>>), args)

\* configurations: cells holding nothing, a term, or a sequence of up to
\* MaxItems items, and a cell of two cells
Configs ==
    {kCell(<<>>), kCell(<<a>>), kCell(<<b>>), kCell(<<x>>), kCell(<<tok1>>),
     topCell(<<kCell(<<a>>), memCell(<<tok1>>)>>),
     topCell(<<kCell(<<b>>), memCell(<<tok1>>)>>),
     topCell(<<kCell(<<KSequence(<<a, x>>)>>), memCell(<<y>>)>>)}
    \cup {kCell(<<KSequence(items)>>) : items \in SeqsUpTo({a, b, x}, MaxItems)}

\* the caller either shares one object between structurally equal terms or builds
\* every term afresh
InitAntiUnify == pc = "idle" /\ arg = <<>> /\ ret = null /\ interned \in BOOLEAN

CallAntiUnify ==
    /\ pc = "idle"
    /\ \E state1 \in Configs, state2 \in Configs :
          /\ arg' = [state1 |-> state1, state2 |-> state2]
          /\ ret' = antiUnify(state1, state2)
    /\ pc' = "antiUnify"
    /\ UNCHANGED interned

NextAntiUnify == CallAntiUnify \/ Return

SpecAntiUnify == InitAntiUnify /\ [][NextAntiUnify]_vars

\* C4: for any two configurations, antiUnify returns a triple (G, S1, S2) with
\* S1.apply(G) structurally equal to the first and S2.apply(G) to the second
C4_AntiUnifyGeneral ==
    pc = "antiUnify" =>
        /\ ~IsError(ret)
        /\ StructurallyEqual(apply(ret.subst1, ret.state), arg.state1)
        /\ StructurallyEqual(apply(ret.subst2, ret.state), arg.state2)

\* ---------------------------------------------------------------------------
\* Matching-logic predicates and extractSubst

K == KSort("K")
GENERATED_TOP_CELL == KSort("GeneratedTopCell")
BOOL == KSort("Bool")
\* the constant TRUE of prelude/kbool.ts
kTRUE == KToken("true", BOOL)

\* the reverse of a sequence
Reverse(s) == [i \in 1..Len(s) |-> s[Len(s) + 1 - i]]

RECURSIVE flattenLoop(_, _, _)
\* the loop of flattenLabel: restOfArgs is the stack, its top at the end
flattenLoop(label, restOfArgs, flattened) ==
    IF Len(restOfArgs) = 0 THEN flattened
    ELSE LET currentArg == restOfArgs[Len(restOfArgs)]
             rest == SliceInit(restOfArgs)
         IN IF currentArg.node = "KApply" /\ currentArg.label.name = label
            THEN flattenLoop(label, rest \o Reverse(currentArg.args), flattened)
            ELSE flattenLoop(label, rest, Append(flattened, currentArg))

\* flattenLabel
flattenLabel(label, kast) == flattenLoop(label, <<kast>>, <<>>)

RECURSIVE buildAssocLoop(_, _, _, _, _)
\* the loop of buildAssoc over termArray, the reversed terms, from position i on
buildAssocLoop(unit, labelObj, termArray, i, result) ==
    IF i > Len(termArray) THEN result
    ELSE LET term == termArray[i]
             isUnitTerm == /\ term.node = "KApply" /\ unit.node = "KApply"
                           /\ term.label.name = unit.label.name
                           /\ Len(term.args) = Len(unit.args)
                           /\ Len(term.args) = 0
         IN IF isUnitTerm THEN buildAssocLoop(unit, labelObj, termArray, i + 1, result)
            ELSE IF result = null
            THEN buildAssocLoop(unit, labelObj, termArray, i + 1, term)
            ELSE buildAssocLoop(unit, labelObj, termArray, i + 1,
                                KApply(labelObj, <<term, result>>))

\* buildAssoc
buildAssoc(unit, labelObj, terms) ==
    LET result == buildAssocLoop(unit, labelObj, Reverse(terms), 1, null)
    IN IF result = null THEN unit ELSE result

\* _isTop and isTop without the weak option
isTop(term) == term.node = "KApply" /\ term.label.name = "#Top"

\* mlTop with the default sort
mlTop == KApply(KLabel("#Top", <<GENERATED_TOP_CELL>>), <<>>)

\* mlEquals with the default sorts
mlEquals(term1, term2) ==
    KApply(KLabel("#Equals", <<K, GENERATED_TOP_CELL>>), <<term1, term2>>)

\* mlEqualsTrue with the default sort
mlEqualsTrue(term) ==
    KApply(KLabel("#Equals", <<BOOL, GENERATED_TOP_CELL>>), <<kTRUE, term>>)

\* mlAnd with the default sort
mlAnd(conjuncts) ==
    LET filtered == SelectSeq(conjuncts, LAMBDA c : ~isTop(c))
    IN buildAssoc(mlTop, KLabel("#And", <<GENERATED_TOP_CELL>>), filtered)

\* freeVars: the names of the variables that occur in a term
freeVars(kast) == {v.name : v \in VarNodes(kast)}

\* the properties every JavaScript object inherits, which `name in subst` finds
\* in the empty record as well
ObjectPrototypeProps ==
    {"constructor", "toString", "toLocaleString", "valueOf", "hasOwnProperty",
     "isPrototypeOf", "propertyIsEnumerable", "__proto__"}

\* `name in subst` for the record subst of extractSubst
InRecord(name, subst) == name \in ObjectPrototypeProps \/ has(subst, name)

\* the test of extractSubstInner without the check that value is not a variable
\* already bound
canBind_AnyValue(subst, v, value) ==
    /\ v.node = "KVariable"
    /\ ~InRecord(v.name, subst)
    /\ v.name \notin freeVars(value)

\* a test that does not look for v inside value
canBind_NoOccursCheck(subst, v, value) ==
    /\ v.node = "KVariable"
    /\ ~InRecord(v.name, subst)
    /\ ~(value.node = "KVariable" /\ InRecord(value.name, subst))

\* the test of extractSubstInner that the variable v can be bound to value:
\* v is a variable not yet bound, value is not a variable already bound, and v
\* does not occur in value
canBind(subst, v, value) ==
    /\ v.node = "KVariable"
    /\ ~InRecord(v.name, subst)
    /\ ~(value.node = "KVariable" /\ InRecord(value.name, subst))
    /\ v.name \notin freeVars(value)

RECURSIVE extractSubstInner(_, _, _)
\* extractSubstInner: the pair <<name, value>> to bind, or null
extractSubstInner(subst, term1, term2) ==
    IF canBind(subst, term1, term2) THEN <<term1.name, term2>>
    ELSE IF canBind(subst, term2, term1) THEN <<term2.name, term1>>
    ELSE IF /\ Identical(term1, kTRUE) /\ term2.node = "KApply"
            /\ term2.label.name \in {"_==K_", "_==Int_"}
    THEN extractSubstInner(subst, At(term2.args, 0), At(term2.args, 1))
    ELSE IF /\ Identical(term2, kTRUE) /\ term1.node = "KApply"
            /\ term1.label.name \in {"_==K_", "_==Int_"}
    THEN extractSubstInner(subst, At(term1.args, 0), At(term1.args, 1))
    ELSE null

RECURSIVE extractSubstLoop(_, _, _, _)
\* the loop of extractSubst over the flattened conjuncts, from position i on;
\* it ends with the pair <<subst, remConjuncts>>
extractSubstLoop(flattenedTerms, i, subst, remConjuncts) ==
    IF i > Len(flattenedTerms) THEN <<subst, remConjuncts>>
    ELSE LET conjunct == flattenedTerms[i]
         IN IF conjunct.node = "KApply" /\ conjunct.label.name = "#Equals"
            THEN LET conjunctSubst ==
                        extractSubstInner(subst, At(conjunct.args, 0), At(conjunct.args, 1))
                 IN IF conjunctSubst # null
                    THEN extractSubstLoop(flattenedTerms, i + 1,
                             Subst(Append(subst.entries, conjunctSubst)), remConjuncts)
                    ELSE extractSubstLoop(flattenedTerms, i + 1, subst,
                                          Append(remConjuncts, conjunct))
            ELSE extractSubstLoop(flattenedTerms, i + 1, subst,
                                  Append(remConjuncts, conjunct))

\* extractSubst; the pair it returns is a record tagged "Pair"
extractSubst(term) ==
    LET flattenedTerms == flattenLabel("#And", term)
        done == extractSubstLoop(flattenedTerms, 1, Subst(<<>>), <<>>)
        subst == done[1]
        remConjuncts == done[2]
    IN IF Len(flattenedTerms) = 1 /\ Len(subst.entries) = 0
       THEN [node |-> "Pair", subst |-> subst, term |-> term]
       ELSE IF Len(remConjuncts) = 0
       THEN [node |-> "Pair", subst |-> subst, term |-> mlTop]
       ELSE [node |-> "Pair", subst |-> subst, term |-> mlAnd(remConjuncts)]

eqK(term1, term2) == KApply(KLabel("_==K_", <<>>), <<term1, term2>>)

\* the conjuncts a predicate is built from: equalities between variables,
\* constants and applications, a boolean equality wrapped by mlEqualsTrue, and a
\* predicate that is no equality
Conjuncts ==
    {mlEquals(l, r) : l, r \in {x, y, a, f(<<x>>)}}
    \cup {mlEqualsTrue(eqK(y, b)), KApply(KLabel("#Ceil", <<>>), <<x>>)}

\* the predicates handed to extractSubst: one conjunct, or mlAnd of several,
\* and conjunctions written out as a KApply of #And, which may hold #Top
Predicates ==
    {IF Len(cs) = 1 THEN cs[1] ELSE mlAnd(cs) : cs \in SeqsUpTo(Conjuncts, MaxConjuncts)}
    \cup {KApply(KLabel("#And", <<GENERATED_TOP_CELL>>), <<l, r>>) :
            l, r \in {mlTop, mlEquals(x, a), mlEquals(x, f(<<x>>))}}

CallExtractSubst ==
    /\ pc = "idle"
    /\ \E term \in Predicates :
          /\ arg' = [term |-> term]
          /\ ret' = extractSubst(term)
    /\ pc' = "extractSubst"
    /\ UNCHANGED interned

NextExtract == CallExtractSubst \/ Return

SpecExtract == InitAntiUnify /\ [][NextExtract]_vars

\* the conjunction Equals(X, a) AND Equals(Y, f(X))
C5_Example == mlAnd(<<mlEquals(x, a), mlEquals(y, f(<<x>>))>>)

\* the names bound by the conjuncts before position i
BoundBefore(conjuncts, i) ==
    keys(extractSubstLoop(SubSeq(conjuncts, 1, i - 1), 1, Subst(<<>>), <<>>)[1])

\* conjunct i is left in the residual the call returned
InResidual(conjuncts, i) ==
    \E j \in 1..Len(flattenLabel("#And", ret.term)) :
        flattenLabel("#And", ret.term)[j] = conjuncts[i]

\* C5 as stated: on Equals(X, a) AND Equals(Y, f(X)) extractSubst returns {X: a}
\* and the residual Equals(Y, f(X)); a conjunct Var = value whose value mentions
\* a variable bound by an earlier conjunct is left in the residual and is not
\* turned into a binding
C5_MentionedVariableBlocks ==
    pc = "extractSubst" =>
        LET conjuncts == flattenLabel("#And", arg.term)
        IN /\ arg.term = C5_Example
              => /\ ret.subst = Subst(<<<<"X", a>>>>)
                 /\ ret.term = mlEquals(y, f(<<x>>))
           /\ \A i \in 1..Len(conjuncts) :
                 ( /\ conjuncts[i].node = "KApply"
                   /\ conjuncts[i].label.name = "#Equals"
                   /\ conjuncts[i].args[1].node = "KVariable"
                   /\ freeVars(conjuncts[i].args[2]) \cap BoundBefore(conjuncts, i) # {} )
                 => /\ InResidual(conjuncts, i)
                    /\ ~( /\ has(ret.subst, conjuncts[i].args[1].name)
                          /\ get(ret.subst, conjuncts[i].args[1].name) = conjuncts[i].args[2] )

\* C5 amended: on Equals(X, a) AND Equals(Y, f(X)) extractSubst returns
\* {X: a, Y: f(X)} and the residual #Top; an equality of which one side is itself
\* a variable bound by an earlier conjunct is left in the residual
C5_BoundVariableBlocks ==
    pc = "extractSubst" =>
        LET conjuncts == flattenLabel("#And", arg.term)
        IN /\ arg.term = C5_Example
              => /\ ret.subst = Subst(<<<<"X", a>>, <<"Y", f(<<x>>)>>>>)
                 /\ ret.term = mlTop
           /\ \A i \in 1..Len(conjuncts) :
                 ( /\ conjuncts[i].node = "KApply"
                   /\ conjuncts[i].label.name = "#Equals"
                   /\ \E k \in 1..2 :
                         /\ conjuncts[i].args[k].node = "KVariable"
                         /\ conjuncts[i].args[k].name \in BoundBefore(conjuncts, i) )
                 => InResidual(conjuncts, i)

\* an equality between a fresh variable and a variable bound by the first
\* conjunct was handed over and left in the residual
C5_Witness ==
    /\ pc = "extractSubst"
    /\ arg.term = mlAnd(<<mlEquals(x, a), mlEquals(y, x)>>)
    /\ ret.subst = Subst(<<<<"X", a>>>>)
    /\ ret.term = mlEquals(y, x)

\* ---------------------------------------------------------------------------
\* Serialisation round trip

\* terms of every variant: those of the matching universe, and sequences built
\* from sequences, aliases and rewrites of compound terms
DictTerms ==
    Patterns \cup MatchTerms
    \cup {KSequence(<<KSequence(s), t>>) : s \in SeqsUpTo({a, x}, MaxItems), t \in {b, tok1}}
    \cup {KSequence(<<a, KSequence(<<b, KSequence(<<xInt>>)>>)>>),
          f(<<KSequence(<<>>)>>), f(<<KSequence(<<a>>)>>),
          f(<<KSequence(<<KSequence(<<a, b>>), x>>)>>),
          KAs(f(<<xInt, a>>), y), KAs(KSequence(<<a, b>>), xInt),
          KRewrite(KSequence(<<a, b>>), KSequence(<<>>)),
          KRewrite(f(<<x>>), KAs(a, y)),
          KApply(KLabel("g", <<INT, STRING_SORT>>), <<>>)}

CallRoundTrip ==
    /\ pc = "idle"
    /\ \E t \in DictTerms :
          /\ arg' = [term |-> t, dict |-> toDict(t)]
          /\ ret' = fromDict(toDict(t))
    /\ pc' = "roundTrip"
    /\ UNCHANGED interned

NextDict == CallRoundTrip \/ Return

SpecDict == InitMatch /\ [][NextDict]_vars

\* C6: for every term x of every variant, KInner.fromDict(x.toDict()) is
\* structurally equal to x
C6_DictRoundTrip == pc = "roundTrip" => StructurallyEqual(ret, arg.term)

\* a sequence holding a sorted variable went through the dictionary, where the
\* variable's entry carries its sort
C6_Witness ==
    /\ pc = "roundTrip"
    /\ arg.term.node = "KSequence" /\ Len(arg.term.items) = 3
    /\ arg.term.items[3] = xInt
    /\ DGet(arg.dict, "arity") = DNum(3)
    /\ DHas(DGet(arg.dict, "items").v[3], "sort")
    /\ ret = arg.term

\* ---------------------------------------------------------------------------
\* Constrained terms: the CTerm constructor and its canonical constraint order

RECURSIVE isTopWeak(_)
\* isTop with the weak option
isTopWeak(term) ==
    IF isTop(term) THEN TRUE
    ELSE LET flat == flattenLabel("#And", term)
         IN IF Len(flat) = 1 THEN isTop(flat[1])
            ELSE \A i \in 1..Len(flat) : isTopWeak(flat[i])

\* _isBottom and isBottom without the weak option
isBottom(term) == term.node = "KApply" /\ term.label.name = "#Bottom"

RECURSIVE isBottomWeak(_)
\* isBottom with the weak option
isBottomWeak(term) ==
    IF isBottom(term) THEN TRUE
    ELSE LET flat == flattenLabel("#And", term)
         IN IF Len(flat) = 1 THEN isBottom(flat[1])
            ELSE \E i \in 1..Len(flat) : isBottomWeak(flat[i])

\* mlBottom with the default sort
mlBottom == KApply(KLabel("#Bottom", <<GENERATED_TOP_CELL>>), <<>>)

\* u === v where either may be undefined
StrictEquals(u, v) == IF u = undefined \/ v = undefined THEN u = v ELSE Identical(u, v)

RECURSIVE uniqueLoop(_, _, _)
\* the loop of unique from position i on; seen holds the items already yielded,
\* and an item is in the Set when it is the same object as one of them
uniqueLoop(items, i, seen) ==
    IF i > Len(items) THEN seen
    ELSE IF \E j \in 1..Len(seen) : Identical(seen[j], items[i])
    THEN uniqueLoop(items, i + 1, seen)
    ELSE uniqueLoop(items, i + 1, Append(seen, items[i]))

\* unique of utils.ts
unique(items) == uniqueLoop(items, 1, <<>>)

\* isSpuriousConstraint
isSpuriousConstraint(term) ==
    \/ /\ term.node = "KApply" /\ term.label.name = "#Equals"
       /\ StrictEquals(At(term.args, 0), At(term.args, 1))
    \/ isTopWeak(term)

\* normalizeConstraints.  The code calls filter on the generator that unique
\* returns, which is a method of the iterator helpers of the runtimes the
\* repository is developed on (Bun, Node 22)
normalizeConstraints(constraints) ==
    LET constraintList == FlatMap([i \in 1..Len(constraints) |->
                                      flattenLabel("#And", constraints[i])])
        constraintList2 == unique(constraintList)
    IN SelectSeq(constraintList2, LAMBDA c : ~isSpuriousConstraint(c))

\* String.prototype.padStart(targetLength, "0")
padStart(s, targetLength) ==
    IF Len(s) >= targetLength THEN s
    ELSE SubSeq("00000000000000000000", 1, targetLength - Len(s)) \o s

\* CTerm._constraintSortKey
CTerm_constraintSortKey(term) ==
    LET termStr == toString(term)
    IN padStart(ToString(Len(termStr)), 10) \o "_" \o termStr

\* The collation String.prototype.localeCompare applies (the root collation of
\* ICU, for the printable ASCII characters but the grave accent, which a string
\* of this module cannot hold): characters are compared first by a
\* primary weight that ignores case, punctuation before digits before letters;
\* only texts equal at that level are told apart by case, lower case first
PrimaryOrder ==
    " _-,;:!?.'\"()[]{}@*/\\&#%^+<=>|~$0123456789abcdefghijklmnopqrstuvwxyz"

LowerCase == "abcdefghijklmnopqrstuvwxyz"
UpperCase == "ABCDEFGHIJKLMNOPQRSTUVWXYZ"

\* the position of the character c in the text, 0 when it does not occur
IndexOf(c, text) ==
    IF \E i \in 1..Len(text) : SubSeq(text, i, i) = c
    THEN CHOOSE i \in 1..Len(text) : SubSeq(text, i, i) = c
    ELSE 0

\* the primary weight of a character: its rank in PrimaryOrder, case ignored
PrimaryWeight(c) ==
    IF IndexOf(c, UpperCase) > 0
    THEN IndexOf(SubSeq(LowerCase, IndexOf(c, UpperCase), IndexOf(c, UpperCase)), PrimaryOrder)
    ELSE IndexOf(c, PrimaryOrder)

\* the case weight of a character: lower case before upper case
TertiaryWeight(c) == IF IndexOf(c, UpperCase) > 0 THEN 1 ELSE 0

RECURSIVE FirstDiffIn(_, _, _, _)
\* the first position in lo..hi at which s1 and s2 differ, given that they do
FirstDiffIn(s1, s2, lo, hi) ==
    IF lo = hi THEN lo
    ELSE LET mid == (lo + hi) \div 2
         IN IF SubSeq(s1, lo, mid) # SubSeq(s2, lo, mid)
            THEN FirstDiffIn(s1, s2, lo, mid)
            ELSE FirstDiffIn(s1, s2, mid + 1, hi)

RECURSIVE collateFrom(_, _, _, _)
\* the comparison of s1 and s2 from position from on; tertiary is the verdict
\* of the first difference of case met so far, 0 when there was none
collateFrom(s1, s2, from, tertiary) ==
    LET n == IF Len(s1) < Len(s2) THEN Len(s1) ELSE Len(s2)
    IN IF SubSeq(s1, from, n) = SubSeq(s2, from, n)
       THEN IF Len(s1) < Len(s2) THEN -1
            ELSE IF Len(s1) > Len(s2) THEN 1
            ELSE tertiary
       ELSE LET i == FirstDiffIn(s1, s2, from, n)
                c1 == SubSeq(s1, i, i)
                c2 == SubSeq(s2, i, i)
            IN IF PrimaryWeight(c1) < PrimaryWeight(c2) THEN -1
               ELSE IF PrimaryWeight(c1) > PrimaryWeight(c2) THEN 1
               ELSE collateFrom(s1, s2, i + 1,
                                IF tertiary # 0 THEN tertiary
                                ELSE IF TertiaryWeight(c1) < TertiaryWeight(c2) THEN -1
                                ELSE 1)

\* String.prototype.localeCompare: negative, zero or positive
localeCompare(s1, s2) == collateFrom(s1, s2, 1, 0)

\* the comparator handed to sort by CTerm._normalizeConstraints
compareConstraints(c1, c2) ==
    localeCompare(CTerm_constraintSortKey(c1), CTerm_constraintSortKey(c2))

RECURSIVE insertStable(_, _, _)
\* e put into the sorted sequence behind every item that does not come after it
insertStable(sorted, e, i) ==
    IF i > Len(sorted) THEN Append(sorted, e)
    ELSE IF compareConstraints(sorted[i], e) > 0
    THEN SubSeq(sorted, 1, i - 1) \o <<e>> \o SubSeq(sorted, i, Len(sorted))
    ELSE insertStable(sorted, e, i + 1)

RECURSIVE sortLoop(_, _, _)
\* Array.prototype.sort with the comparator above: a stable sort, computed by
\* inserting the items in their order
sortLoop(items, i, sorted) ==
    IF i > Len(items) THEN sorted
    ELSE sortLoop(items, i + 1, insertStable(sorted, items[i], 1))

\* the constraints in the order they were normalised to, reversed, in place of
\* the sorted order
CTerm_normalizeConstraints_Reversed(constraints) ==
    Reverse(normalizeConstraints(constraints))

\* CTerm._normalizeConstraints
CTerm_normalizeConstraints(constraints) ==
    sortLoop(normalizeConstraints(constraints), 1, <<>>)

\* CTerm._checkConfig: the error it throws, or null
CTerm_checkConfig(config) ==
    IF ~(config.node = "KApply") \/ ~isCell(config)
    THEN Error("Expected cell label, found: " \o toString(config))
    ELSE null

\* the CTerm constructor
CTerm(config, constraints) ==
    IF isTopWeak(config) THEN [node |-> "CTerm", config |-> mlTop, constraints |-> <<>>]
    ELSE IF isBottomWeak(config)
    THEN [node |-> "CTerm", config |-> mlBottom, constraints |-> <<>>]
    ELSE IF CTerm_checkConfig(config) # null THEN CTerm_checkConfig(config)
    ELSE [node |-> "CTerm", config |-> config,
          constraints |-> CTerm_normalizeConstraints(constraints)]

bigB == KApply(KLabel("B", <<>>), <<>>)

\* the constraints a list is drawn from: equalities whose texts have the same
\* length and differ in one letter or its case, a longer equality, a
\* conjunction of two of them, a reflexive equality and #Top
ConstraintAtoms ==
    {mlEquals(x, a), mlEquals(x, bigB), mlEquals(x, f(<<a>>)), mlEquals(a, a), mlTop,
     KApply(KLabel("#And", <<GENERATED_TOP_CELL>>), <<mlEquals(x, bigB), mlEquals(y, a)>>)}

CTermConfigs == {kCell(<<x>>), kCell(<<KSequence(<<a, y>>)>>)}

CallCTerm ==
    /\ pc = "idle"
    /\ \E config \in CTermConfigs, L \in SeqsUpTo(ConstraintAtoms, MaxConstraints) :
          /\ arg' = [config |-> config, constraints |-> L]
          /\ ret' = CTerm(config, L)
    /\ pc' = "CTerm"
    /\ UNCHANGED interned

\* new CTerm(c.config, c.constraints) for the CTerm c just constructed
CallCTermAgain ==
    /\ pc = "CTerm"
    /\ ret.node = "CTerm"
    /\ arg' = [config |-> ret.config, constraints |-> ret.constraints, first |-> ret,
               firstConstraints |-> arg.constraints]
    /\ ret' = CTerm(ret.config, ret.constraints)
    /\ pc' = "CTermAgain"
    /\ UNCHANGED interned

\* the permutations of a sequence
PermutationsOf(s) ==
    {[i \in 1..Len(s) |-> s[p[i]]] :
        p \in {q \in [1..Len(s) -> 1..Len(s)] : \A i, j \in 1..Len(s) : i # j => q[i] # q[j]}}

\* new CTerm(config, L2) for a permutation L2 of the list just handed over
CallCTermPermuted ==
    /\ pc = "CTerm"
    /\ ret.node = "CTerm"
    /\ \E L2 \in PermutationsOf(arg.constraints) :
          /\ arg' = [config |-> arg.config, constraints |-> L2, first |-> ret,
                     firstConstraints |-> arg.constraints]
          /\ ret' = CTerm(arg.config, L2)
    /\ pc' = "CTermPermuted"
    /\ UNCHANGED interned

NextCTerm == CallCTerm \/ CallCTermAgain \/ CallCTermPermuted \/ Return

SpecCTerm == InitAntiUnify /\ [][NextCTerm]_vars

\* C8: constructing new CTerm(c.config, c.constraints) from a CTerm c with a
\* cell configuration yields the same constraints in the same order
C8_NormalizeIdempotent ==
    pc = "CTermAgain" => (ret.node = "CTerm" /\ ret.constraints = arg.first.constraints)

\* a CTerm holding several constraints, which the constructor had put into
\* another order than they were given in, was constructed again
C8_Witness ==
    /\ pc = "CTermAgain"
    /\ Len(arg.first.constraints) >= 2
    /\ ret.constraints = arg.first.constraints
    /\ arg.first.constraints # normalizeConstraints(arg.firstConstraints)

\* the printable ASCII characters (but the grave accent) in the order of their codes
AsciiOrder ==
    " !\"#$%&'()*+,-./0123456789:;<=>?@ABCDEFGHIJKLMNOPQRSTUVWXYZ[\\]^_abcdefghijklmnopqrstuvwxyz{|}~"

\* s1 comes before s2, or is s2, in the lexicographic order of the characters' codes
LexLeq(s1, s2) ==
    LET n == IF Len(s1) < Len(s2) THEN Len(s1) ELSE Len(s2)
    IN IF SubSeq(s1, 1, n) = SubSeq(s2, 1, n) THEN Len(s1) <= Len(s2)
       ELSE LET i == FirstDiffIn(s1, s2, 1, n)
            IN IndexOf(SubSeq(s1, i, i), AsciiOrder) < IndexOf(SubSeq(s2, i, i), AsciiOrder)

\* the constraints are in the order of their serialised length first and of
\* their serialised text, lexicographically, second
SortedByLengthThenText(constraints) ==
    \A i \in 1..(Len(constraints) - 1) :
        LET s1 == toString(constraints[i])
            s2 == toString(constraints[i + 1])
        IN \/ Len(s1) < Len(s2)
           \/ Len(s1) = Len(s2) /\ LexLeq(s1, s2)

\* C9: for two constraint lists that are permutations of each other the
\* constructor yields the same constraint list in the same order, sorted by
\* serialised length first and lexicographically second
C9_CanonicalOrder ==
    pc = "CTermPermuted" =>
        /\ ret.node = "CTerm"
        /\ ret.constraints = arg.first.constraints
        /\ SortedByLengthThenText(ret.constraints)

\* ---------------------------------------------------------------------------
\* Substitutions: union on disjoint keys

\* C11: for substitutions A and B with no key in common, A.union(B) and
\* B.union(A) are both non-null, bind exactly the keys of A together with the
\* keys of B, and give every key the same value in both results, which is the
\* value A or B binds it to
C11_UnionDisjointCommutes ==
    (pc = "union" /\ SharedKeys(arg.this, arg.other) = {}) =>
        LET swapped == union(arg.other, arg.this)
            allKeys == keys(arg.this) \cup keys(arg.other)
        IN /\ ret # null /\ swapped # null
           /\ keys(ret) = allKeys /\ keys(swapped) = allKeys
           /\ Len(ret.entries) = Cardinality(allKeys)
           /\ Len(swapped.entries) = Cardinality(allKeys)
           /\ \A k \in allKeys :
                 /\ get(ret, k) = get(swapped, k)
                 /\ get(ret, k) = IF has(arg.this, k) THEN get(arg.this, k)
                                  ELSE get(arg.other, k)

\* two non-empty substitutions over different keys were united
C11_Witness ==
    /\ pc = "union"
    /\ Len(arg.this.entries) > 0 /\ Len(arg.other.entries) > 0
    /\ SharedKeys(arg.this, arg.other) = {}
    /\ ret # null /\ Len(ret.entries) = 2

(***************************************************************************)
(* Constrained terms: matchWithConstraint, CSubst.apply                    *)
(***************************************************************************)
\* the CSubst constructor
CSubst(subst, constraints) ==
    [node |-> "CSubst", subst |-> IF subst = undefined THEN Subst(<<>>) ELSE subst,
     constraints |-> normalizeConstraints(constraints)]

\* CTerm.matchWithConstraint
CTerm_matchWithConstraint(this, cterm) ==
    LET subst == match(this.config, cterm.config)
    IN IF IsError(subst) \/ subst = null THEN subst
       ELSE LET sourceConstraints == [i \in 1..Len(this.constraints) |->
                                         apply(subst, this.constraints[i])]
                constraints ==
                    SelectSeq(cterm.constraints,
                              LAMBDA c : ~\E i \in 1..Len(sourceConstraints) :
                                             equals(sourceConstraints[i], c))
            IN CSubst(subst, constraints)

\* CSubst.apply
CSubst_apply(this, cterm) ==
    LET config == apply(this.subst, cterm.config)
        constraints == [i \in 1..Len(cterm.constraints) |->
                           apply(this.subst, cterm.constraints[i])]
                       \o this.constraints
    IN CTerm(config, constraints)

\* the configurations and constraints of the CTerm that is matched against
\* another, and those of the CTerm it is matched against
SourceCTerms ==
    {CTerm(c, L) :
        c \in {kCell(<<x>>), kCell(<<f(<<x, y>>)>>), kCell(<<f(<<x, x>>)>>)},
        L \in SeqsUpTo({mlEqualsTrue(f(<<x>>)), mlEqualsTrue(f(<<y>>))}, MaxConstraints)}

TargetCTerms ==
    {CTerm(c, L) :
        c \in {kCell(<<y>>), kCell(<<a>>), kCell(<<f(<<a, b>>)>>), kCell(<<f(<<a, a>>)>>)},
        L \in SeqsUpTo({mlEqualsTrue(f(<<y>>)), mlEqualsTrue(f(<<a>>)), mlEquals(y, bigB)},
                       MaxConstraints)}

CallMatchWithConstraint ==
    /\ pc = "idle"
    /\ \E t1 \in SourceCTerms, t2 \in TargetCTerms :
          /\ arg' = [this |-> t1, cterm |-> t2]
          /\ ret' = CTerm_matchWithConstraint(t1, t2)
    /\ pc' = "matchWithConstraint"
    /\ UNCHANGED interned

\* cs.apply(t1) for the CSubst cs that t1.matchWithConstraint(t2) just returned
CallCSubstApply ==
    /\ pc = "matchWithConstraint"
    /\ ret # null /\ ~IsError(ret)
    /\ arg' = [csubst |-> ret, cterm |-> arg.this, target |-> arg.cterm]
    /\ ret' = CSubst_apply(ret, arg.this)
    /\ pc' = "CSubst.apply"
    /\ UNCHANGED interned

\* C12: whenever t1.matchWithConstraint(t2) returns a CSubst cs, cs.apply(t1)
\* equals t2: the same configuration and exactly the constraint list of t2,
\* also when t1 carries constraints that t2 does not have after substitution
C12_MatchWithConstraintRecovers ==
    pc = "CSubst.apply" =>
        /\ ret.node = "CTerm"
        /\ StructurallyEqual(ret.config, arg.target.config)
        /\ ret.constraints = arg.target.constraints

(***************************************************************************)
(* Constrained terms: CTerm.antiUnify                                      *)
(***************************************************************************)
kFALSE == KToken("false", BOOL)

\* notBool
notBool(item) == KApply(KLabel("notBool_", <<>>), <<item>>)

\* andBool / orBool
andBool(items) == buildAssoc(kTRUE, KLabel("_andBool_", <<>>), unique(items))
orBool(items) == buildAssoc(kFALSE, KLabel("_orBool_", <<>>), unique(items))

\* isTermLike of a term: collect visits every subterm
isTermLike(kast) ==
    ~\E k \in Subterms(kast) :
        \/ k.node = "KVariable" /\ Len(k.name) > 0 /\ SubSeq(k.name, 1, 1) = "@"
        \/ /\ k.node = "KApply"
           /\ k.label.name \in {"#Equals", "#And", "#Or", "#Top", "#Bottom",
                                "#Implies", "#Not", "#Ceil", "#Forall", "#Exists"}

RECURSIVE mlPredToBool(_)
\* mlPredToBool with unsafe = false (mlConstraintToBool); isTermLike of a
\* missing argument reads `terms` of undefined
mlPredToBool(k) ==
    LET failed == Error("Could not convert ML predicate to sort Bool: " \o toString(k))
        converted == [i \in 1..Len(k.args) |-> mlPredToBool(k.args[i])]
        first == At(k.args, 0)
        second == At(k.args, 1)
        sortIsInt(t) == t.sort # null /\ t.sort.name = "Int"
        eqOf(t) == IF sortIsInt(t) THEN KApply(KLabel("_==Int_", <<>>), k.args)
                   ELSE KApply(KLabel("_==K_", <<>>), k.args)
    IN IF k.node # "KApply" THEN failed
       ELSE CASE k.label.name = "#Top" -> kTRUE
              [] k.label.name = "#Bottom" -> kFALSE
              [] k.label.name = "#Not" ->
                    IF Len(k.args) = 1
                    THEN FirstError(converted, notBool(converted[1]))
                    ELSE failed
              [] k.label.name = "#And" -> FirstError(converted, andBool(converted))
              [] k.label.name = "#Or" -> FirstError(converted, orBool(converted))
              [] k.label.name = "#Implies" ->
                    IF Len(k.args) = 2
                    THEN FirstError(converted,
                                    KApply(KLabel("_impliesBool_", <<>>), converted))
                    ELSE failed
              [] k.label.name = "#Equals" ->
                    IF StrictEquals(first, kTRUE) THEN second
                    ELSE IF StrictEquals(first, kFALSE) THEN notBool(second)
                    ELSE IF StrictEquals(second, kTRUE) THEN first
                    ELSE IF StrictEquals(second, kFALSE) THEN notBool(first)
                    ELSE IF first # undefined /\ first.node \in {"KVariable", "KToken"}
                    THEN eqOf(first)
                    ELSE IF second # undefined /\ second.node \in {"KVariable", "KToken"}
                    THEN eqOf(second)
                    ELSE IF /\ first # undefined /\ second # undefined
                            /\ first.node = "KSequence" /\ second.node = "KSequence"
                            /\ Len(first.items) = 1 /\ Len(second.items) = 1
                    THEN KApply(KLabel("_==K_", <<>>), <<first.items[1], second.items[1]>>)
                    ELSE IF first = undefined THEN TypeError("terms")
                    ELSE IF ~isTermLike(first) THEN failed
                    ELSE IF second = undefined THEN TypeError("terms")
                    ELSE IF isTermLike(second)
                    THEN KApply(KLabel("_==K_", <<>>), <<first, second>>)
                    ELSE failed
              [] OTHER -> failed

RECURSIVE SetToSeq(_)
\* the elements of a Set as an array, [...set]
SetToSeq(S) ==
    IF S = {} THEN <<>>
    ELSE LET e == CHOOSE e \in S : TRUE IN <<e>> \o SetToSeq(S \ {e})

RECURSIVE uniqueNames(_, _, _)
\* Array.from(new Set(names)): each name at its first position
uniqueNames(names, i, seen) ==
    IF i > Len(names) THEN seen
    ELSE IF \E j \in 1..Len(seen) : seen[j] = names[i]
    THEN uniqueNames(names, i + 1, seen)
    ELSE uniqueNames(names, i + 1, Append(seen, names[i]))

\* the test of the while loop after a pass: usedVars, its repeated names
\* removed, is longer than it was when the pass began
nextPass(usedVars, prevLenUsedVars) == Len(usedVars) > prevLenUsedVars

RECURSIVE removeUselessLoop(_, _, _, _, _)
\* the loops of removeUselessConstraints: position i of the current pass over
\* the constraints; usedVars is the array of names, prevLenUsedVars its length
\* when the pass began.  kept holds the positions of the constraints pushed to
\* newConstraints: the element at a position is the same object in every pass
removeUselessLoop(constraints, i, usedVars, prevLenUsedVars, kept) ==
    IF i > Len(constraints)
    THEN IF nextPass(uniqueNames(usedVars, 1, <<>>), prevLenUsedVars)
         THEN removeUselessLoop(constraints, 1, uniqueNames(usedVars, 1, <<>>),
                                Len(uniqueNames(usedVars, 1, <<>>)), kept)
         ELSE [k \in 1..Len(kept) |-> constraints[kept[k]]]
    ELSE IF /\ ~\E j \in 1..Len(kept) :
                  kept[j] = i \/ Identical(constraints[kept[j]], constraints[i])
            /\ \E v \in freeVars(constraints[i]) : \E k \in 1..Len(usedVars) : usedVars[k] = v
    THEN removeUselessLoop(constraints, i + 1,
                           usedVars \o SetToSeq(freeVars(constraints[i])),
                           prevLenUsedVars, Append(kept, i))
    ELSE removeUselessLoop(constraints, i + 1, usedVars, prevLenUsedVars, kept)

\* removeUselessConstraints; initialVars is the array Array.from(initialVars)
removeUselessConstraints(constraints, initialVars) ==
    IF Len(initialVars) > 0
    THEN removeUselessLoop(constraints, 1, initialVars, Len(initialVars), <<>>)
    ELSE <<>>

\* Array.prototype.includes for terms: the same object
includes(items, t) == \E i \in 1..Len(items) : Identical(items[i], t)

\* CSubst.pred with its default arguments; Subst.minimize drops the identity entries
CSubst_pred(this) ==
    LET minimize == SelectSeq(this.subst.entries,
                              LAMBDA e : ~(e[2].node = "KVariable" /\ e[2].name = e[1]))
        preds == [i \in 1..Len(minimize) |->
                     KApply(KLabel("#Equals", <<K, GENERATED_TOP_CELL>>),
                            <<KVariable(minimize[i][1], K), minimize[i][2]>>)]
    IN mlAnd(preds \o this.constraints)

\* CTerm.addConstraint
addConstraint(this, newConstraint) ==
    CTerm(this.config, <<newConstraint>> \o this.constraints)

RECURSIVE addConstraintsLoop(_, _, _)
\* the loop of CTerm.antiUnify that adds newConstraints from position i on
addConstraintsLoop(newCterm, newConstraints, i) ==
    IF i > Len(newConstraints) THEN newCterm
    ELSE addConstraintsLoop(addConstraint(newCterm, newConstraints[i]), newConstraints, i + 1)

\* the constraint that CTerm.antiUnify adds when keepValues is set, or the error
\* mlPredToBool throws.  trueBool is a KToken made in the call, so the array
\* [disjunctLhs, disjunctRhs] never includes it and the constraint is always added
keepValuesGuard(this, other, selfSubst, otherSubst) ==
    Bind(Map(SelectSeq(this.constraints, LAMBDA c : ~includes(other.constraints, c)),
             mlPredToBool),
         LAMBDA selfUniqueConstraints :
    Bind(Map(SelectSeq(other.constraints, LAMBDA c : ~includes(this.constraints, c)),
             mlPredToBool),
         LAMBDA otherUniqueConstraints :
    FirstError(selfUniqueConstraints \o otherUniqueConstraints,
               mlEqualsTrue(orBool(
                   <<andBool(<<CSubst_pred(CSubst(selfSubst, <<>>))>>
                             \o selfUniqueConstraints),
                     andBool(<<CSubst_pred(CSubst(otherSubst, <<>>))>>
                             \o otherUniqueConstraints)>>)))))

\* CTerm.antiUnify without a definition; the result is the triple
\* (newCterm, selfCsubst, otherCsubst) or the error thrown
CTerm_antiUnify(this, other, keepValues) ==
    Bind(antiUnify(this.config, other.config), LAMBDA au :
    IF IsError(au) THEN au ELSE
    Bind(CTerm(au.state, <<>>), LAMBDA emptyCterm :
    IF IsError(emptyCterm) THEN emptyCterm ELSE
    Bind(IF keepValues THEN keepValuesGuard(this, other, au.subst1, au.subst2) ELSE null,
         LAMBDA guard :
    IF IsError(guard) THEN guard ELSE
    Bind(IF keepValues THEN addConstraint(emptyCterm, guard) ELSE emptyCterm,
         LAMBDA guarded :
    Bind(addConstraintsLoop(
             guarded,
             removeUselessConstraints(
                 SelectSeq(this.constraints, LAMBDA c : includes(other.constraints, c)),
                 SetToSeq(freeVars(mlAnd(<<guarded.config>> \o guarded.constraints)))),
             1),
         LAMBDA newCterm :
    Bind(CTerm_matchWithConstraint(newCterm, this), LAMBDA selfCsubst :
    Bind(CTerm_matchWithConstraint(newCterm, other), LAMBDA otherCsubst :
    IF IsError(selfCsubst) THEN selfCsubst
    ELSE IF IsError(otherCsubst) THEN otherCsubst
    ELSE IF selfCsubst = null \/ otherCsubst = null
    THEN Error("Anti-unification failed to produce a more general state")
    ELSE [node |-> "Triple", cterm |-> newCterm, csubst1 |-> selfCsubst,
          csubst2 |-> otherCsubst])))))))

\* the CTerms that are generalized: cells without a child, cells with one, and
\* #Top, under up to MaxConstraints constraints
AntiUnifyCTerms ==
    {CTerm(c, L) :
        c \in {kCell(<<>>), memCell(<<>>), kCell(<<a>>), kCell(<<x>>), mlTop},
        L \in SeqsUpTo({mlEqualsTrue(f(<<x>>)), mlEquals(x, a)}, MaxConstraints)}

CallCTermAntiUnify ==
    /\ pc = "idle"
    /\ \E A \in AntiUnifyCTerms, B \in AntiUnifyCTerms, keepValues \in BOOLEAN :
          /\ arg' = [this |-> A, other |-> B, keepValues |-> keepValues]
          /\ ret' = CTerm_antiUnify(A, B, keepValues)
    /\ pc' = "CTerm.antiUnify"
    /\ UNCHANGED interned

\* C13: for all CTerms A and B and both values of keepValues, A.antiUnify(B,
\* keepValues) returns (G, cs1, cs2) with cs1.apply(G) equal to A and
\* cs2.apply(G) equal to B
C13_CTermAntiUnifyGeneral ==
    pc = "CTerm.antiUnify" =>
        /\ ~IsError(ret)
        /\ CSubst_apply(ret.csubst1, ret.cterm) = arg.this
        /\ CSubst_apply(ret.csubst2, ret.cterm) = arg.other

NextCTermOps == CallMatchWithConstraint \/ CallCSubstApply \/ CallCTermAntiUnify \/ Return

SpecCTermOps == InitAntiUnify /\ [][NextCTermOps]_vars

(***************************************************************************)
(* Rule synthesis: buildRule, buildClaim                                   *)
(***************************************************************************)
\* obj[k] = v on a JavaScript record kept as its entries in insertion order: a
\* key already present keeps its position and takes the new value
RecordSet(entries, k, v) ==
    IF \E i \in 1..Len(entries) : entries[i][1] = k
    THEN [i \in 1..Len(entries) |-> IF entries[i][1] = k THEN <<k, v>> ELSE entries[i]]
    ELSE Append(entries, <<k, v>>)

\* the rewrite rules of simplifyBool, as <<lhs, rhs>> pairs
simplifyRules ==
    LET V(name) == KVariable(name, null)
        op(name, args) == KApply(KLabel(name, <<>>), args)
    IN << <<op("_==K_", <<V("#LHS"), kTRUE>>), V("#LHS")>>,
          <<op("_==K_", <<kTRUE, V("#RHS")>>), V("#RHS")>>,
          <<op("_==K_", <<V("#LHS"), kFALSE>>), notBool(V("#LHS"))>>,
          <<op("_==K_", <<kFALSE, V("#RHS")>>), notBool(V("#RHS"))>>,
          <<notBool(kFALSE), kTRUE>>,
          <<notBool(kTRUE), kFALSE>>,
          <<notBool(op("_==K_", <<V("#V1"), V("#V2")>>)), op("_=/=K_", <<V("#V1"), V("#V2")>>)>>,
          <<notBool(op("_=/=K_", <<V("#V1"), V("#V2")>>)), op("_==K_", <<V("#V1"), V("#V2")>>)>>,
          <<notBool(op("_==Int_", <<V("#V1"), V("#V2")>>)),
            op("_=/=Int_", <<V("#V1"), V("#V2")>>)>>,
          <<notBool(op("_=/=Int_", <<V("#V1"), V("#V2")>>)),
            op("_==Int_", <<V("#V1"), V("#V2")>>)>>,
          <<op("_andBool_", <<kTRUE, V("#REST")>>), V("#REST")>>,
          <<op("_andBool_", <<V("#REST"), kTRUE>>), V("#REST")>>,
          <<op("_andBool_", <<kFALSE, V("#REST")>>), kFALSE>>,
          <<op("_andBool_", <<V("#REST"), kFALSE>>), kFALSE>>,
          <<op("_orBool_", <<kFALSE, V("#REST")>>), V("#REST")>>,
          <<op("_orBool_", <<V("#REST"), kFALSE>>), V("#REST")>>,
          <<op("_orBool_", <<kTRUE, V("#REST")>>), kTRUE>>,
          <<op("_orBool_", <<V("#REST"), kTRUE>>), kTRUE>> >>

RECURSIVE simplifyLoop(_, _)
\* the loop of simplifyBool over the rules, from rule i on
simplifyLoop(newK, i) ==
    IF i > Len(simplifyRules) \/ IsError(newK) THEN newK
    ELSE simplifyLoop(KRewrite_apply(KRewrite(simplifyRules[i][1], simplifyRules[i][2]), newK),
                      i + 1)

\* simplifyBool
simplifyBool(k) == IF k = null \/ k = undefined THEN k ELSE simplifyLoop(k, 1)

\* boolToMlPred with the default sort
boolToMlPred(kast) ==
    LET boolConstraintToMl(k) == IF Identical(k, kTRUE) THEN mlTop
                                 ELSE IF Identical(k, kFALSE) THEN mlBottom
                                 ELSE mlEqualsTrue(k)
    IN mlAnd(Map(flattenLabel("_andBool_", kast), boolConstraintToMl))

\* normalizeMlPred
normalizeMlPred(pred) ==
    Bind(mlPredToBool(pred), LAMBDA bool :
    IF IsError(bool) THEN bool ELSE
    Bind(simplifyBool(bool), LAMBDA simplified :
    IF IsError(simplified) THEN simplified ELSE boolToMlPred(simplified)))

RECURSIVE varOccurrences(_)
\* varOccurrences: the variable occurrences of a term in the order collect
\* visits them; the Map of the source groups them by name
varOccurrences(term) ==
    IF term.node = "KVariable" THEN <<term>>
    ELSE FlatMap(Map(Terms(term), varOccurrences))

\* the entry of keepVarsSorted(occurrences) for a name
keepVarsSorted(occurrences, name) ==
    LET sorted == SelectSeq(occurrences, LAMBDA v : v.name = name /\ v.sort # null)
    IN KVariable(name,
                 IF Len(sorted) = 0 THEN null
                 ELSE IF \A i \in 1..Len(sorted) : sorted[i].sort.name = sorted[1].sort.name
                 THEN sorted[1].sort
                 ELSE null)

RECURSIVE existentialLoop(_, _, _, _)
\* the loop of applyExistentialSubstitutions from constraint i on: the pair of
\* the record subst and newConstraints
existentialLoop(constraints, i, subst, newConstraints) ==
    IF i > Len(constraints) THEN <<subst, newConstraints>>
    ELSE Bind(match(mlEqualsTrue(KApply(KLabel("_==K_", <<>>),
                                        <<KVariable("#VAR", null), KVariable("#VAL", null)>>)),
                    constraints[i]),
              LAMBDA m :
              IF /\ m # null /\ ~IsError(m) /\ has(m, "#VAR")
                 /\ get(m, "#VAR").node = "KVariable"
                 /\ Len(get(m, "#VAR").name) > 0
                 /\ SubSeq(get(m, "#VAR").name, 1, 1) = "?"
              THEN existentialLoop(constraints, i + 1,
                                   RecordSet(subst, get(m, "#VAR").name, get(m, "#VAR")),
                                   newConstraints)
              ELSE existentialLoop(constraints, i + 1, subst,
                                   Append(newConstraints, constraints[i])))

\* applyExistentialSubstitutions: the pair of the new state and new constraints
applyExistentialSubstitutions(state, constraints) ==
    Bind(existentialLoop(constraints, 1, <<>>, <<>>), LAMBDA r :
         <<apply(Subst(r[1]), state), Map(r[2], LAMBDA c : apply(Subst(r[1]), c))>>)

RECURSIVE occurrenceNames(_, _, _)
\* the keys of the Map that varOccurrences builds, in insertion order: each
\* variable name at its first occurrence
occurrenceNames(occurrences, i, names) ==
    IF i > Len(occurrences) THEN names
    ELSE IF \E j \in 1..Len(names) : names[j] = occurrences[i].name
    THEN occurrenceNames(occurrences, i + 1, names)
    ELSE occurrenceNames(occurrences, i + 1, Append(names, occurrences[i].name))

RECURSIVE renameLoop(_, _, _, _, _, _)
\* the loop of buildRule over occurrences.entries(): names holds the variable
\* names in the order of their first occurrence; the result is the pair of the
\* records vSubst and vremapSubst
renameLoop(occurrences, names, lhsVars, rhsVars, vSubst, vremapSubst) ==
    IF Len(names) = 0 THEN <<vSubst, vremapSubst>>
    ELSE LET v == Head(names)
             occs == SelectSeq(occurrences, LAMBDA o : o.name = v)
             once == IF Len(occs) = 1 THEN "_" \o v ELSE v
             newV == IF v \in rhsVars /\ v \notin lhsVars THEN "?" \o once ELSE once
         IN IF newV # v
            THEN renameLoop(occurrences, Tail(names), lhsVars, rhsVars,
                            RecordSet(vSubst, v,
                                      KVariable(newV, keepVarsSorted(occurrences, v).sort)),
                            RecordSet(vremapSubst, newV, keepVarsSorted(occurrences, v)))
            ELSE renameLoop(occurrences, Tail(names), lhsVars, rhsVars, vSubst, vremapSubst)

\* the second half of buildRule, from the computed occurrences on
buildRuleFrom(ruleId, initConfig, finalConfig, initConstraintsList, finalConstraintsList, occurrences) ==
    Bind(renameLoop(occurrences,
                    occurrenceNames(occurrences, 1, <<>>),
                    freeVars(mlAnd(<<initConfig>> \o initConstraintsList)),
                    freeVars(mlAnd(<<finalConfig>> \o finalConstraintsList)),
                    <<>>, <<>>),
         LAMBDA substs :
    Bind(applyExistentialSubstitutions(
             apply(Subst(substs[1]), finalConfig),
             Map(finalConstraintsList, LAMBDA c : apply(Subst(substs[1]), c))),
         LAMBDA final :
    Bind(pushDownRewrites(KRewrite(apply(Subst(substs[1]), initConfig), final[1])),
         LAMBDA ruleBody :
    IF IsError(ruleBody) THEN ruleBody ELSE
    Bind(mlPredToBool(mlAnd(Map(initConstraintsList, LAMBDA c : apply(Subst(substs[1]), c)))),
         LAMBDA requiresBool :
    IF IsError(requiresBool) THEN requiresBool ELSE
    Bind(mlPredToBool(mlAnd(final[2])), LAMBDA ensuresBool :
    IF IsError(ensuresBool) THEN ensuresBool ELSE
    [node |-> "Pair",
     rule |-> [node |-> "KRule", body |-> ruleBody,
               requires |-> simplifyBool(requiresBool),
               ensures |-> simplifyBool(ensuresBool),
               att |-> <<<<"label", ruleId>>>>],
     varMap |-> Subst(substs[2])])))))

\* buildRule without priority and definition; keepVars is not read by the code.
\* The result is the pair (rule, varMap) or the error thrown.  A constraint that
\* normalizeMlPred returns is a new object, so the filter on
\* initConstraintsList.includes drops no final constraint
buildRule(ruleId, initConfig, finalConfig, initConstraints, finalConstraints) ==
    Bind(Map(initConstraints, normalizeMlPred), LAMBDA initConstraintsList :
    Bind(Map(finalConstraints, normalizeMlPred), LAMBDA finalConstraintsList :
    IF \E i \in 1..Len(initConstraintsList \o finalConstraintsList) :
          IsError((initConstraintsList \o finalConstraintsList)[i])
    THEN FirstError(initConstraintsList \o finalConstraintsList, null) ELSE
    Bind(pushDownRewrites(KRewrite(initConfig, finalConfig)), LAMBDA pushed :
    IF IsError(pushed) THEN pushed ELSE
    buildRuleFrom(ruleId, initConfig, finalConfig, initConstraintsList, finalConstraintsList,
                  varOccurrences(mlAnd(<<pushed>> \o initConstraintsList
                                       \o finalConstraintsList))))))

\* buildClaim: the rule of buildRule as a claim
buildClaim(claimId, initConfig, finalConfig, initConstraints, finalConstraints) ==
    Bind(buildRule(claimId, initConfig, finalConfig, initConstraints, finalConstraints),
         LAMBDA r :
         IF IsError(r) THEN r
         ELSE [r EXCEPT !.rule = [@ EXCEPT !.node = "KClaim"]])

\* the configurations and constraints that rules are built from
RuleConfigs ==
    {x, y, kCell(<<>>), kCell(<<x>>), kCell(<<x, y>>)}

RuleConstraints ==
    {mlEqualsTrue(x), mlEqualsTrue(f(<<x, y>>))}

CallBuildRule ==
    /\ pc = "idle"
    /\ \E initConfig \in RuleConfigs, finalConfig \in RuleConfigs,
          initConstraints \in SeqsUpTo(RuleConstraints, MaxConstraints),
          finalConstraints \in SeqsUpTo(RuleConstraints, MaxConstraints) :
          /\ arg' = [initConfig |-> initConfig, finalConfig |-> finalConfig,
                     initConstraints |-> initConstraints,
                     finalConstraints |-> finalConstraints]
          /\ ret' = buildRule("r", initConfig, finalConfig, initConstraints, finalConstraints)
    /\ pc' = "buildRule"
    /\ UNCHANGED interned

CallBuildClaim ==
    /\ pc = "idle"
    /\ \E initConfig \in RuleConfigs, finalConfig \in RuleConfigs,
          initConstraints \in SeqsUpTo(RuleConstraints, MaxConstraints),
          finalConstraints \in SeqsUpTo(RuleConstraints, MaxConstraints) :
          /\ arg' = [initConfig |-> initConfig, finalConfig |-> finalConfig,
                     initConstraints |-> initConstraints,
                     finalConstraints |-> finalConstraints]
          /\ ret' = buildClaim("c", initConfig, finalConfig, initConstraints, finalConstraints)
    /\ pc' = "buildClaim"
    /\ UNCHANGED interned

NextRule == CallBuildRule \/ CallBuildClaim \/ Return
SpecRule == InitAntiUnify /\ [][NextRule]_vars

\* the term whose variable occurrences buildRule counts: the pushed-down rewrite
\* of the two configurations in arg with both constraint lists
CountedTerm ==
    mlAnd(<<pushDownRewrites(KRewrite(arg.initConfig, arg.finalConfig))>>
          \o arg.initConstraints \o arg.finalConstraints)

\* the name the convention gives the variable v of a rule built from the
\* arguments in arg: '_' when v occurs once in the counted term, '?' in front of
\* that when v occurs in the final state or constraints and not in the initial ones
ConventionName(v) ==
    LET occurrencesOfV ==
            Cardinality({p \in 1..Len(varOccurrences(CountedTerm)) :
                         varOccurrences(CountedTerm)[p].name = v})
        initVars == freeVars(mlAnd(<<arg.initConfig>> \o arg.initConstraints))
        finalVars == freeVars(mlAnd(<<arg.finalConfig>> \o arg.finalConstraints))
        once == IF occurrencesOfV = 1 THEN "_" \o v ELSE v
    IN IF v \in finalVars /\ v \notin initVars THEN "?" \o once ELSE once

\* C14: buildRule and buildClaim return a rule or claim whose variables carry
\* the names of the convention: '_' in front of a variable that occurs once in
\* the pushed-down rewrite and both constraint lists, '?' in front of one that
\* is free in the final side and not in the initial side, every other variable
\* under its own name; the variables of the initial configuration all appear
\* in the body
C14_BuildRuleNamingConvention ==
    pc \in {"buildRule", "buildClaim"} =>
        /\ ~IsError(ret)
        /\ ret.rule.node = (IF pc = "buildRule" THEN "KRule" ELSE "KClaim")
        /\ freeVars(ret.rule.body) \cup freeVars(ret.rule.requires)
              \cup freeVars(ret.rule.ensures)
              \subseteq {ConventionName(v) : v \in freeVars(CountedTerm)}
        /\ {ConventionName(v) : v \in freeVars(arg.initConfig)}
              \subseteq freeVars(ret.rule.body)

\* the part of C14 that concerns the rules that are built
C14_NamingWhenBuilt ==
    (pc \in {"buildRule", "buildClaim"} /\ ~IsError(ret)) =>
        /\ freeVars(ret.rule.body) \cup freeVars(ret.rule.requires)
              \cup freeVars(ret.rule.ensures)
              \subseteq {ConventionName(v) : v \in freeVars(CountedTerm)}
        /\ {ConventionName(v) : v \in freeVars(arg.initConfig)}
              \subseteq freeVars(ret.rule.body)

(***************************************************************************)
(* Failed matches.                                                         *)
(***************************************************************************)
\* the error KAs.match throws
KAsError == Error("KAs does not support pattern matching")

\* the pattern and the term are of different variants and the pattern is neither
\* a variable nor an alias: a pairing without a matching rule
NoRulePairing == arg.pattern.node \notin {"KVariable", "KAs", arg.term.node}

\* C15 (as stated): P.match(T) returns a substitution or null and never raises;
\* a pairing of variants without a matching rule, an alias pattern included,
\* returns null
C15_FailedMatchIsNull ==
    pc = "match" =>
        /\ ret = null \/ ret.node = "Subst"
        /\ (NoRulePairing \/ arg.pattern.node = "KAs") => ret = null

\* C15 (amended): P.match(T) returns a substitution or null, or raises the error
\* of KAs.match; it raises only when P holds an alias, always when P is an
\* alias, and every other pairing of variants without a matching rule returns
\* null
C15_FailedMatchIsNullOrAliasError ==
    pc = "match" =>
        /\ ret = null \/ ret.node = "Subst" \/ ret = KAsError
        /\ IsError(ret) => \E s \in Subterms(arg.pattern) : s.node = "KAs"
        /\ arg.pattern.node = "KAs" => ret = KAsError
        /\ NoRulePairing => ret = null

C15_Witness ==
    /\ pc = "match"
    /\ arg.pattern.node = "KApply"
    /\ \E i \in 1..Len(arg.pattern.args) : arg.pattern.args[i].node = "KAs"
    /\ ret = KAsError

(***************************************************************************)
(* CTerm.fromKast.                                                         *)
(***************************************************************************)
RECURSIVE splitLoop(_, _, _, _, _)
\* the loop of splitConfigAndConstraints over the conjuncts from position i on
splitLoop(kast, conjuncts, i, term, constraints) ==
    IF i > Len(conjuncts)
    THEN IF term = null
         THEN Error("Could not find configuration for: " \o toString(kast))
         ELSE [node |-> "Pair", config |-> term, constraint |-> mlAnd(constraints)]
    ELSE IF isCell(conjuncts[i])
    THEN IF term # null
         THEN Error("Found two configurations in pattern:\n\n" \o toString(term)
                    \o "\n\nand\n\n" \o toString(conjuncts[i]))
         ELSE splitLoop(kast, conjuncts, i + 1, conjuncts[i], constraints)
    ELSE splitLoop(kast, conjuncts, i + 1, term, Append(constraints, conjuncts[i]))

\* a splitConfigAndConstraints that takes the last cell when there are several
splitConfigAndConstraints_LastCell(kast) ==
    LET conjuncts == flattenLabel("#And", kast)
        cells == SelectSeq(conjuncts, isCell)
    IN IF Len(cells) = 0
       THEN Error("Could not find configuration for: " \o toString(kast))
       ELSE [node |-> "Pair", config |-> cells[Len(cells)],
             constraint |-> mlAnd(SelectSeq(conjuncts, LAMBDA c : ~isCell(c)))]

\* splitConfigAndConstraints: the pair of config and constraint, or the error
\* thrown
splitConfigAndConstraints(kast) ==
    splitLoop(kast, flattenLabel("#And", kast), 1, null, <<>>)

\* CTerm.fromKast
CTerm_fromKast(kast) ==
    IF isTopWeak(kast) THEN CTerm(mlTop, <<>>)
    ELSE IF isBottomWeak(kast) THEN CTerm(mlBottom, <<>>)
    ELSE Bind(splitConfigAndConstraints(kast), LAMBDA split :
         IF IsError(split) THEN split
         ELSE CTerm(split.config, flattenLabel("#And", split.constraint)))

\* the conjuncts a term handed to fromKast is made of
FromKastAtoms ==
    {kCell(<<x>>), memCell(<<>>), mlEquals(x, a), mlEquals(a, a), mlTop, mlBottom, x}

mlAndLabel == KLabel("#And", <<GENERATED_TOP_CELL>>)

\* terms handed to fromKast: an atom, or #And applications nested to the right
\* and to the left over up to MaxConjuncts + 1 atoms
FromKastTerms ==
    FromKastAtoms
    \cup {KApply(mlAndLabel, <<p, q>>) : p \in FromKastAtoms, q \in FromKastAtoms}
    \cup UNION {{KApply(mlAndLabel, <<s[1], KApply(mlAndLabel, Tail(s))>>),
                 KApply(mlAndLabel, <<KApply(mlAndLabel, SliceInit(s)), s[Len(s)]>>)} :
                s \in {t \in SeqsUpTo(FromKastAtoms \ {mlBottom}, MaxConjuncts + 1) :
                          Len(t) >= 3}}

CallFromKast ==
    /\ pc = "idle"
    /\ \E kast \in FromKastTerms :
          /\ arg' = kast
          /\ ret' = CTerm_fromKast(kast)
    /\ pc' = "fromKast"
    /\ UNCHANGED interned

NextFromKast == CallFromKast \/ Return
SpecFromKast == InitAntiUnify /\ [][NextFromKast]_vars

\* the #And-conjuncts of the term handed to fromKast that are cell applications
CellConjuncts == SelectSeq(flattenLabel("#And", arg), isCell)

\* C16: for a term that is not weakly top or bottom, fromKast raises an error
\* when the #And-conjuncts hold no cell application or more than one, and
\* otherwise returns the CTerm of the single cell application with the
\* normalized remaining conjuncts as constraints
C16_FromKastSingleCell ==
    (pc = "fromKast" /\ ~isTopWeak(arg) /\ ~isBottomWeak(arg)) =>
        IF Len(CellConjuncts) # 1 THEN IsError(ret)
        ELSE ret = [node |-> "CTerm", config |-> CellConjuncts[1],
                    constraints |->
                        CTerm_normalizeConstraints(
                            SelectSeq(flattenLabel("#And", arg), LAMBDA c : ~isCell(c)))]

\* a cell among three conjuncts with a constraint that stays and one that goes
C16_Witness ==
    /\ pc = "fromKast"
    /\ Len(flattenLabel("#And", arg)) = 3
    /\ Len(CellConjuncts) = 1
    /\ ret.node = "CTerm"
    /\ Len(ret.constraints) = 1

(***************************************************************************)
(* Subst.from_pred.                                                        *)
(***************************************************************************)
\* a binding read off an #Equals conjunct by either operand: the variable on
\* the left, or else the variable on the right
bindingOf_EitherOrder(conjunct) ==
    IF conjunct.args[1].node = "KVariable"
    THEN [node |-> "Pair", key |-> conjunct.args[1].name, value |-> conjunct.args[2]]
    ELSE IF conjunct.args[2].node = "KVariable"
    THEN [node |-> "Pair", key |-> conjunct.args[2].name, value |-> conjunct.args[1]]
    ELSE Error("Invalid substitution predicate: " \o toString(conjunct))

\* the inner branch of from_pred on an #Equals conjunct of two arguments: the
\* binding lhs.name -> rhs when lhs is a variable, else the error thrown
bindingOf(conjunct) ==
    IF conjunct.args[1].node = "KVariable"
    THEN [node |-> "Pair", key |-> conjunct.args[1].name, value |-> conjunct.args[2]]
    ELSE Error("Invalid substitution predicate: " \o toString(conjunct))

RECURSIVE fromPredLoop(_, _, _)
\* the loop of from_pred over the conjuncts from position i on; subst is the
\* record built so far, in insertion order of its keys
fromPredLoop(conjuncts, i, subst) ==
    IF i > Len(conjuncts) THEN Subst(subst)
    ELSE IF /\ conjuncts[i].node = "KApply"
            /\ conjuncts[i].label.name = "#Equals"
            /\ Len(conjuncts[i].args) = 2
    THEN Bind(bindingOf(conjuncts[i]), LAMBDA binding :
         IF IsError(binding) THEN binding
         ELSE fromPredLoop(conjuncts, i + 1, RecordSet(subst, binding.key, binding.value)))
    ELSE Error("Invalid substitution predicate: " \o toString(conjuncts[i]))

\* Subst.from_pred
from_pred(pred) ==
    IF pred.node = "KApply" /\ pred.label.name = "#Or"
    THEN Error("Invalid substitution predicate: wrong connective " \o toString(pred))
    ELSE fromPredLoop(flattenLabel("#And", pred), 1, <<>>)

\* the conjuncts of the predicates handed to from_pred
FromPredAtoms ==
    {mlEquals(x, tok1), mlEquals(x, a), mlEquals(y, a), mlEquals(tok1, x), mlEquals(a, b),
     mlEqualsTrue(f(<<x>>)), mlTop}

\* the predicates handed to from_pred: #And nested to the right over up to
\* MaxConjuncts + 1 atoms, and a disjunction
FromPredPreds ==
    {buildAssoc(mlBottom, mlAndLabel, s) :
        s \in NonEmptySeqs(FromPredAtoms, MaxConjuncts + 1)}
    \cup {KApply(KLabel("#Or", <<GENERATED_TOP_CELL>>), <<p, q>>) :
             p \in FromPredAtoms, q \in FromPredAtoms}

CallFromPred ==
    /\ pc = "idle"
    /\ \E pred \in FromPredPreds :
          /\ arg' = pred
          /\ ret' = from_pred(pred)
    /\ pc' = "from_pred"
    /\ UNCHANGED interned

NextFromPred == CallFromPred \/ Return
SpecFromPred == InitMatch /\ [][NextFromPred]_vars

\* the top connective of the predicate handed to from_pred is #Or
TopIsOr == arg.node = "KApply" /\ arg.label.name = "#Or"

\* the #And-conjuncts of the predicate handed to from_pred
PredConjuncts == flattenLabel("#And", arg)

IsEquals(c) == c.node = "KApply" /\ c.label.name = "#Equals" /\ Len(c.args) = 2

\* C17 (as stated): from_pred raises when the top connective is #Or or some
\* conjunct is not an #Equals with a variable operand; on every other input it
\* returns a substitution that binds the variable operand of each conjunct, on
\* either side, to the other operand
C17_FromPredEitherOrder ==
    pc = "from_pred" =>
        IF \/ TopIsOr
           \/ \E i \in 1..Len(PredConjuncts) :
                 ~(/\ IsEquals(PredConjuncts[i])
                   /\ \E k \in 1..2 : PredConjuncts[i].args[k].node = "KVariable")
        THEN IsError(ret)
        ELSE /\ ret.node = "Subst"
             /\ \A i \in 1..Len(PredConjuncts) : \E k \in 1..2 :
                   /\ PredConjuncts[i].args[k].node = "KVariable"
                   /\ has(ret, PredConjuncts[i].args[k].name)

\* C17 (amended): from_pred raises when the top connective is #Or or some
\* conjunct is not an #Equals whose first operand is a variable; on every other
\* input it returns the substitution whose keys are those variables, each bound
\* to the second operand of the last conjunct that has it first
C17_FromPredLeftVariable ==
    pc = "from_pred" =>
        IF \/ TopIsOr
           \/ \E i \in 1..Len(PredConjuncts) :
                 ~(IsEquals(PredConjuncts[i]) /\ PredConjuncts[i].args[1].node = "KVariable")
        THEN IsError(ret)
        ELSE /\ ret.node = "Subst"
             /\ keys(ret) = {PredConjuncts[i].args[1].name : i \in 1..Len(PredConjuncts)}
             /\ Len(ret.entries) = Cardinality(keys(ret))
             /\ \A i \in 1..Len(PredConjuncts) :
                   (\A j \in (i + 1)..Len(PredConjuncts) :
                       PredConjuncts[j].args[1].name # PredConjuncts[i].args[1].name)
                   => get(ret, PredConjuncts[i].args[1].name) = PredConjuncts[i].args[2]

\* a conjunction of equalities, one with its variable on the right: the error
C17_Witness ==
    /\ pc = "from_pred"
    /\ ~TopIsOr
    /\ \A i \in 1..Len(PredConjuncts) :
          /\ IsEquals(PredConjuncts[i])
          /\ \E k \in 1..2 : PredConjuncts[i].args[k].node = "KVariable"
    /\ \E i \in 1..Len(PredConjuncts) : PredConjuncts[i].args[1].node # "KVariable"
    /\ IsError(ret)

TraversalSubst == Subst(<<<<"X", f(<<y>>)>>, <<"Y", a>>>>)

\* the callbacks handed to the traversals, by name: the identity, a function
\* that wraps every term in an application, the callback of Subst.apply for
\* TraversalSubst, and the callback of pushDownRewrites
Callback(name, t) ==
    CASE name = "identity" -> t
      [] name = "wrap" -> KApply(KLabel("g", <<>>), <<t>>)
      [] name = "replace" -> Subst_replace(TraversalSubst, t)
      [] name = "pushDownRewritesInner" -> pushDownRewritesInner(t)

TraversalTerms ==
    {x, y, a, tok1, f(<<x>>), f(<<x, y>>), f(<<y, x>>), f(<<f(<<x>>), y>>),
     f(<<a, f(<<y, x>>)>>), KSequence(<<>>), KSequence(<<x, y>>), KSequence(<<y, a, x>>),
     KRewrite(x, y), KRewrite(f(<<x>>), f(<<y>>)), KRewrite(f(<<x, a>>), f(<<x, b>>)),
     KAs(x, y), f(<<KRewrite(x, a), KSequence(<<y, x>>)>>)}
    \cup {f(s) : s \in SeqsUpTo({x, y, a}, MaxItems)}

CallTopDown ==
    /\ pc = "idle"
    /\ \E name \in {"identity", "replace", "pushDownRewritesInner"}, t \in TraversalTerms :
          /\ arg' = [f |-> name, term |-> t]
          /\ ret' = topDown(LAMBDA k : Callback(name, k), t)
    /\ pc' = "topDown"
    /\ UNCHANGED interned

CallBottomUp ==
    /\ pc = "idle"
    /\ \E name \in {"identity", "wrap", "replace", "pushDownRewritesInner"},
          t \in TraversalTerms :
          /\ arg' = [f |-> name, term |-> t]
          /\ ret' = bottomUp(LAMBDA k : Callback(name, k), t)
    /\ pc' = "bottomUp"
    /\ UNCHANGED interned

NextTraversal == CallTopDown \/ CallBottomUp \/ Return
SpecTraversal == InitMatch /\ [][NextTraversal]_vars

RECURSIVE topDownRec(_, _)
\* f applied to the node first and then, through its result, to each child in
\* order from the left
topDownRec(name, t) ==
    LET r == Callback(name, t)
    IN letTerms(r, [i \in 1..Len(Terms(r)) |-> topDownRec(name, Terms(r)[i])])

RECURSIVE bottomUpRec(_, _)
\* rec(t) = f(t.letTerms(t.terms.map(rec)))
bottomUpRec(name, t) ==
    Callback(name, letTerms(t, [i \in 1..Len(Terms(t)) |-> bottomUpRec(name, Terms(t)[i])]))

\* C19: topDown(f, t) returns, without raising, the term obtained by applying f
\* to the node first and then in order from the left to each child of f's
\* result, also when f(t) has children
C19_TopDownReturns ==
    pc = "topDown" =>
        /\ ~IsError(ret)
        /\ ret = topDownRec(arg.f, arg.term)

\* C20: the explicit-stack bottomUp(f, t) returns what the recursive definition
\* rec(t) = f(t.letTerms(t.terms.map(rec))) does: the children transformed, in
\* their order from the left, before the parent, and f applied once to each node
C20_BottomUpIsRecursive ==
    pc = "bottomUp" => ret = bottomUpRec(arg.f, arg.term)

\* a term two levels deep with different children, under a callback that changes
\* every node
C20_Witness ==
    /\ pc = "bottomUp"
    /\ arg.f = "wrap"
    /\ arg.term = f(<<a, f(<<y, x>>)>>)
    /\ ret = bottomUpRec("wrap", arg.term)
    /\ ret # arg.term

(***************************************************************************)
(* The constraint list of a constructed CTerm.                             *)
(***************************************************************************)
\* C21: the constraint list of every CTerm with a cell configuration holds no
\* #And at top level, no two structurally equal constraints, no reflexive
\* equality #Equals(t, t) and no weakly-top predicate
C21_ConstraintListInvariant ==
    (pc \in {"CTerm", "CTermAgain", "CTermPermuted"} /\ ret.node = "CTerm" /\ isCell(ret.config))
        => /\ \A i \in 1..Len(ret.constraints) :
                 /\ ~(ret.constraints[i].node = "KApply"
                      /\ ret.constraints[i].label.name = "#And")
                 /\ ~(/\ ret.constraints[i].node = "KApply"
                      /\ ret.constraints[i].label.name = "#Equals"
                      /\ Len(ret.constraints[i].args) = 2
                      /\ StructurallyEqual(ret.constraints[i].args[1],
                                           ret.constraints[i].args[2]))
                 /\ ~isTopWeak(ret.constraints[i])
           /\ \A i, j \in 1..Len(ret.constraints) :
                 i # j => ~StructurallyEqual(ret.constraints[i], ret.constraints[j])

\* the part of C21 that the code keeps whether or not equal terms share an
\* object: no #And at top level and no weakly-top predicate
C21_FlattenedAndNoTop ==
    (pc \in {"CTerm", "CTermAgain", "CTermPermuted"} /\ ret.node = "CTerm" /\ isCell(ret.config))
        => \A i \in 1..Len(ret.constraints) :
              /\ ~(ret.constraints[i].node = "KApply"
                   /\ ret.constraints[i].label.name = "#And")
              /\ ~isTopWeak(ret.constraints[i])

(***************************************************************************)
(* simplifyBool on its own.                                                *)
(***************************************************************************)
bVar == KVariable("B", null)

andBoolOf(lhs, rhs) == KApply(KLabel("_andBool_", <<>>), <<lhs, rhs>>)
orBoolOf(lhs, rhs) == KApply(KLabel("_orBool_", <<>>), <<lhs, rhs>>)

BoolLeaves == {kTRUE, kFALSE, bVar}

\* boolean terms one operator deep
BoolTerms1 ==
    BoolLeaves
    \cup {notBool(p) : p \in BoolLeaves}
    \cup {eqK(p, q) : p \in {bVar, x}, q \in BoolLeaves}
    \cup {andBoolOf(p, q) : p \in BoolLeaves, q \in BoolLeaves}
    \cup {orBoolOf(p, q) : p \in BoolLeaves, q \in BoolLeaves}

\* boolean terms two operators deep
BoolTerms ==
    BoolTerms1
    \cup {notBool(p) : p \in BoolTerms1}
    \cup {andBoolOf(p, q) : p \in BoolTerms1, q \in {kTRUE, bVar}}
    \cup {orBoolOf(p, q) : p \in {kFALSE, bVar}, q \in BoolTerms1}

CallSimplifyBool ==
    /\ pc = "idle"
    /\ \E k \in BoolTerms :
          /\ arg' = k
          /\ ret' = simplifyBool(k)
    /\ pc' = "simplifyBool"
    /\ UNCHANGED interned

\* some rule of the table matches some subterm of the term
HasRedex(k) ==
    \E s \in Subterms(k) : \E i \in 1..Len(simplifyRules) :
        match(simplifyRules[i][1], s).node = "Subst"

\* C22: simplifyBool rewrites to a fixpoint of its rule table: no rule matches
\* any subterm of simplifyBool(k), and simplifying the result again changes
\* nothing
C22_SimplifyBoolFixpoint ==
    pc = "simplifyBool" =>
        /\ ~HasRedex(ret)
        /\ StructurallyEqual(simplifyBool(ret), ret)

(***************************************************************************)
(* buildAssoc on its own.                                                  *)
(***************************************************************************)
tok0 == KToken("0", INT)

\* the units a chain is built over: a token and an application without arguments
AssocUnits == {tok0, mlTop}

CallBuildAssoc ==
    /\ pc = "idle"
    /\ \E unit \in AssocUnits, terms \in SeqsUpTo({tok0, mlTop, x, y}, MaxItems + 1) :
          /\ arg' = [unit |-> unit, terms |-> terms]
          /\ ret' = buildAssoc(unit, KLabel("f", <<>>), terms)
    /\ pc' = "buildAssoc"
    /\ UNCHANGED interned

NextAssoc == CallBuildAssoc \/ Return
SpecAssoc == InitMatch /\ [][NextAssoc]_vars

RECURSIVE RightNested(_)
\* the chain f(t1, f(t2, ... tn)) of a non-empty sequence
RightNested(terms) ==
    IF Len(terms) = 1 THEN terms[1]
    ELSE KApply(KLabel("f", <<>>), <<Head(terms), RightNested(Tail(terms))>>)

\* the elements of the terms handed to buildAssoc that are not structurally
\* equal to the unit
NonUnitTerms == SelectSeq(arg.terms, LAMBDA t : ~StructurallyEqual(t, arg.unit))

\* C23: buildAssoc returns the right-nested chain over the elements that are not
\* structurally equal to unit, in their order, the single element when one
\* remains and unit when none remains, for a unit of any variant
C23_BuildAssocSkipsUnit ==
    pc = "buildAssoc" =>
        ret = (IF Len(NonUnitTerms) = 0 THEN arg.unit ELSE RightNested(NonUnitTerms))

\* the part of C23 for a unit that is an application without arguments
C23_BuildAssocSkipsApplicationUnit ==
    (pc = "buildAssoc" /\ arg.unit.node = "KApply") =>
        ret = (IF Len(NonUnitTerms) = 0 THEN arg.unit ELSE RightNested(NonUnitTerms))

(***************************************************************************)
(* The requires and ensures clauses of a built rule.                       *)
(***************************************************************************)
\* the conjuncts of a clause of the rule just built, the literal true left out
ClauseConjuncts(clause) ==
    {c \in {flattenLabel("_andBool_", clause)[i] :
               i \in 1..Len(flattenLabel("_andBool_", clause))} : c # kTRUE}

\* C24: buildRule drops every final constraint whose normalized form is
\* structurally equal to a normalized initial constraint: the ensures clause of
\* the rule it returns has no conjunct that is also in its requires clause
C24_EnsuresDisjointFromRequires ==
    (pc \in {"buildRule", "buildClaim"} /\ ~IsError(ret)) =>
        ClauseConjuncts(ret.rule.ensures) \cap ClauseConjuncts(ret.rule.requires) = {}

(***************************************************************************)
(* KSequence.match with a pattern shorter than the term.                   *)
(***************************************************************************)
SeqPatternItems == {x, y, a, f(<<x>>), f(<<y>>)}
SeqTermItems == {a, b, f(<<a>>)}

CallSequenceMatch ==
    /\ pc = "idle"
    /\ \E p \in SeqsUpTo(SeqPatternItems, MaxItems), t \in SeqsUpTo(SeqTermItems, MaxItems + 1) :
          /\ arg' = [pattern |-> KSequence(p), term |-> KSequence(t)]
          /\ ret' = match(KSequence(p), KSequence(t))
    /\ pc' = "KSequence.match"
    /\ UNCHANGED interned

NextSequence == CallSequenceMatch \/ Return
SpecSequence == InitMatch /\ [][NextSequence]_vars

\* the pattern items before the last one
EarlierItems == SliceInit(arg.pattern.items)

\* the pattern is shorter than the term and ends in a variable
TailCase ==
    /\ Len(arg.pattern.items) >= 1
    /\ Len(arg.term.items) > Len(arg.pattern.items)
    /\ arg.pattern.items[Len(arg.pattern.items)].node = "KVariable"

\* the name of the last pattern item, a variable
TailVar == arg.pattern.items[Len(arg.pattern.items)].name

\* the tail variable occurs in an earlier pattern item, nested or not
TailVarReused == \E i \in 1..Len(EarlierItems) : TailVar \in freeVars(EarlierItems[i])

\* the substitutions of X and Y by subterms of the term's items
ItemSubsts ==
    {Subst(<<<<"X", vx>>, <<"Y", vy>>>>) :
        vx \in UNION {Subterms(arg.term.items[i]) : i \in 1..Len(arg.term.items)},
        vy \in UNION {Subterms(arg.term.items[i]) : i \in 1..Len(arg.term.items)}}

\* the earlier pattern items match the term items at their positions under one
\* substitution
EarlierItemsMatch ==
    \E S \in ItemSubsts :
        \A i \in 1..Len(EarlierItems) : apply(S, EarlierItems[i]) = arg.term.items[i]

\* C25: a shorter pattern whose last item is a variable V that occurs nowhere
\* else matches exactly when its earlier items match the term items at their
\* positions consistently, and binds V to the sequence of the remaining term
\* items; when V occurs elsewhere in the pattern, nested or not, the result is
\* null; a longer pattern, or a shorter one that does not end in a variable,
\* gives null
C25_TailCapture ==
    pc = "KSequence.match" =>
        IF TailCase
        THEN IF TailVarReused THEN ret = null
             ELSE IF EarlierItemsMatch
             THEN /\ ret.node = "Subst"
                  /\ has(ret, TailVar)
                  /\ get(ret, TailVar) =
                        KSequence(SliceFrom(arg.term.items, Len(EarlierItems)))
                  /\ \A i \in 1..Len(EarlierItems) :
                        apply(ret, EarlierItems[i]) = arg.term.items[i]
             ELSE ret = null
        ELSE Len(arg.pattern.items) # Len(arg.term.items) => ret = null

\* the part of C25 that holds: the tail variable is not reused and at most one
\* earlier item binds a variable, or the pattern is longer, or does not end in a
\* variable
C25_TailCaptureSingleBinding ==
    (pc = "KSequence.match" /\ Len(arg.pattern.items) # Len(arg.term.items)) =>
        IF TailCase
        THEN (~TailVarReused /\ Len(EarlierItems) <= 1) =>
                IF EarlierItemsMatch
                THEN /\ ret.node = "Subst"
                     /\ get(ret, TailVar) =
                           KSequence(SliceFrom(arg.term.items, Len(EarlierItems)))
                     /\ \A i \in 1..Len(EarlierItems) :
                           apply(ret, EarlierItems[i]) = arg.term.items[i]
                ELSE ret = null
        ELSE ret = null

\* ---------------------------------------------------------------------------
\* removeUselessConstraints on its own

\* the constraints that are filtered: over X, over X and Y, over Y, over Y and
\* B, and without a variable
UselessConstraints ==
    {mlEqualsTrue(f(<<x, y>>)), mlEqualsTrue(f(<<y>>)),
     mlEqualsTrue(f(<<y, bVar>>)), mlEqualsTrue(f(<<a>>))}

\* the seed collections: arrays of names, with and without repeated names
SeedNames == {"X", "Y", "Z"}

CallRemoveUselessConstraints ==
    /\ pc = "idle"
    /\ \E constraints \in SeqsUpTo(UselessConstraints, MaxConstraints + 1),
          initialVars \in SeqsUpTo(SeedNames, MaxItems) :
          /\ arg' = [constraints |-> constraints, initialVars |-> initialVars]
          /\ ret' = removeUselessConstraints(constraints, initialVars)
    /\ pc' = "removeUselessConstraints"
    /\ UNCHANGED interned

NextUseless == CallRemoveUselessConstraints \/ Return

SpecUseless == InitAntiUnify /\ [][NextUseless]_vars

\* the elements of an array
Elements(items) == {items[i] : i \in 1..Len(items)}

RECURSIVE ReachableVars(_, _)
\* the least set of names that holds the seed and the free variables of every
\* constraint that shares a name with it
ReachableVars(constraints, names) ==
    LET more == names \cup UNION {freeVars(constraints[i]) :
                    i \in {k \in 1..Len(constraints) :
                              freeVars(constraints[k]) \cap names # {}}}
    IN IF more = names THEN names ELSE ReachableVars(constraints, more)

\* the constraints connected to the seed
ConnectedConstraints(constraints, initialVars) ==
    {constraints[i] : i \in {k \in 1..Len(constraints) :
        freeVars(constraints[k])
            \cap ReachableVars(constraints, Elements(initialVars)) # {}}}

\* C26: removeUselessConstraints returns exactly the constraints connected to
\* the seed through chains of shared free variables, for every seed collection,
\* with or without repeated names
C26_RemoveUselessIsLeastFixpoint ==
    pc = "removeUselessConstraints" =>
        Elements(ret) = ConnectedConstraints(arg.constraints, arg.initialVars)

\* the same for the seeds without a repeated name
C26_LeastFixpointWithoutRepeats ==
    (/\ pc = "removeUselessConstraints"
     /\ Cardinality(Elements(arg.initialVars)) = Len(arg.initialVars)) =>
        Elements(ret) = ConnectedConstraints(arg.constraints, arg.initialVars)

\* the constraints of this that are structurally equal to a constraint of other
StructurallyCommon(this, other) ==
    SelectSeq(this.constraints,
              LAMBDA c : \E i \in 1..Len(other.constraints) :
                            StructurallyEqual(other.constraints[i], c))

\* C27: every constraint of this that is structurally equal to a constraint of
\* other and shares a free variable, transitively, with the generalized
\* configuration is a constraint of the generalized CTerm that
\* CTerm.antiUnify returns, whether or not the two sides hold the same object
C27_AntiUnifyKeepsCommonConstraints ==
    pc = "CTerm.antiUnify" =>
        /\ ~IsError(ret)
        /\ \A c \in ConnectedConstraints(StructurallyCommon(arg.this, arg.other),
                                         SetToSeq(freeVars(ret.cterm.config))) :
              c \in Elements(ret.cterm.constraints)

NeverQualifies(conjunct) ==
    \/ ~(conjunct.node = "KApply" /\ conjunct.label.name = "#Equals")
    \/ /\ Len(conjunct.args) = 2
       /\ conjunct.args[1].node = "KVariable"
       /\ conjunct.args[2].node = "KApply"
       /\ conjunct.args[1].name \in freeVars(conjunct.args[2])

\* conjunct i equates the variable `name`, on its left, with a term that has
\* no variable, and no earlier conjunct mentions the variable
FirstGroundBinding(conjuncts, i, name) ==
    /\ conjuncts[i].node = "KApply" /\ conjuncts[i].label.name = "#Equals"
    /\ conjuncts[i].args[1] = KVariable(name, null)
    /\ freeVars(conjuncts[i].args[2]) = {}
    /\ \A j \in 1..(i - 1) : name \notin freeVars(conjuncts[j])

\* no key occurs free in its own value, and a variable is bound once, by the
\* first conjunct that qualifies
BindingsWellFormed ==
    LET conjuncts == flattenLabel("#And", arg.term)
    IN /\ \A i \in 1..Len(ret.subst.entries) :
             ret.subst.entries[i][1] \notin freeVars(ret.subst.entries[i][2])
       /\ Len(ret.subst.entries) = Cardinality(keys(ret.subst))
       /\ \A i \in 1..Len(conjuncts) : \A name \in {"X", "Y"} :
             FirstGroundBinding(conjuncts, i, name)
                => /\ has(ret.subst, name)
                   /\ get(ret.subst, name) = conjuncts[i].args[2]
                   /\ \A j \in (i + 1)..Len(conjuncts) :
                         (conjuncts[j].node = "KApply"
                             /\ conjuncts[j].label.name = "#Equals"
                             /\ conjuncts[j].args[1] = KVariable(name, null)
                             /\ freeVars(conjuncts[j].args[2]) = {})
                            => InResidual(conjuncts, j)

\* C29: no key of the substitution extractSubst returns occurs free in its own
\* value, a variable is bound at most once, by the first conjunct that
\* qualifies, and every conjunct that does not qualify is in the residual
\* predicate unchanged
C29_ExtractSubstBindingsAndResidual ==
    pc = "extractSubst" =>
        /\ BindingsWellFormed
        /\ \A i \in 1..Len(flattenLabel("#And", arg.term)) :
              NeverQualifies(flattenLabel("#And", arg.term)[i])
                 => InResidual(flattenLabel("#And", arg.term), i)

\* C29 with the residual as mlAnd builds it: a conjunct that does not qualify
\* and is not #Top is in the residual predicate unchanged; #Top is left out
\* unless it is the whole predicate
C29_ResidualWithoutTop ==
    pc = "extractSubst" =>
        /\ BindingsWellFormed
        /\ \A i \in 1..Len(flattenLabel("#And", arg.term)) :
              (NeverQualifies(flattenLabel("#And", arg.term)[i])
                  /\ ~isTop(flattenLabel("#And", arg.term)[i]))
                 => InResidual(flattenLabel("#And", arg.term), i)
        /\ (Len(flattenLabel("#And", arg.term)) > 1 /\ ret.term # mlTop)
              => \A j \in 1..Len(flattenLabel("#And", ret.term)) :
                    ~isTop(flattenLabel("#And", ret.term)[j])

\* X = f(X) after X = a: X is bound to a and the self-referential conjunct is
\* the residual
C29_Witness ==
    /\ pc = "extractSubst"
    /\ arg.term = mlAnd(<<mlEquals(x, a), mlEquals(x, f(<<x>>))>>)
    /\ ret.subst = Subst(<<<<"X", a>>>>)
    /\ ret.term = mlEquals(x, f(<<x>>))

(***************************************************************************)
(* normalizeMlPred on its own, and the specification of the boolean        *)
(* simplifier.                                                             *)
(***************************************************************************)
\* mlNot with the default sort
mlNot(term) == KApply(KLabel("#Not", <<GENERATED_TOP_CELL>>), <<term>>)

\* mlOr with the default sort
mlOr(disjuncts) ==
    buildAssoc(mlBottom, KLabel("#Or", <<GENERATED_TOP_CELL>>),
               SelectSeq(disjuncts, LAMBDA d : ~isBottom(d)))

\* the predicates without a connective
MlAtoms ==
    {mlTop, mlBottom, mlEqualsTrue(bVar), mlEqualsTrue(notBool(bVar)),
     mlEqualsTrue(eqK(x, a)), mlEquals(x, a)}

\* the predicates that are normalized: atoms, negations and double negations,
\* conjunctions and disjunctions of up to MaxConjuncts atoms
MlPreds ==
    MlAtoms
    \cup {mlNot(p) : p \in MlAtoms}
    \cup {mlNot(mlNot(p)) : p \in MlAtoms}
    \cup {mlAnd(ps) : ps \in SeqsUpTo(MlAtoms, MaxConjuncts)}
    \cup {mlOr(ps) : ps \in SeqsUpTo(MlAtoms, MaxConjuncts)}

CallNormalizeMlPred ==
    /\ pc = "idle"
    /\ \E pred \in MlPreds :
          /\ arg' = pred
          /\ ret' = normalizeMlPred(pred)
    /\ pc' = "normalizeMlPred"
    /\ UNCHANGED interned

NextBool == CallSimplifyBool \/ CallNormalizeMlPred \/ Return

SpecBool == InitAntiUnify /\ [][NextBool]_vars

\* C30: where normalizeMlPred succeeds on p, it succeeds on its result and
\* returns a predicate structurally equal to that result
C30_NormalizeIdempotent ==
    (pc = "normalizeMlPred" /\ ~IsError(ret)) =>
        /\ ~IsError(normalizeMlPred(ret))
        /\ StructurallyEqual(normalizeMlPred(ret), ret)

====
